---- MODULE Spec2Model ----
(***************************************************************************)
(* Model of the weather-driven particle engine (src/engine.js):            *)
(* createDefaultWeatherState, applyMapping, updateParticle and the 3D      *)
(* vector helpers, together with the way the scenes call them.             *)
(*                                                                         *)
(* Numbers.  A JavaScript number is modelled as a fixed-point integer in   *)
(* units of 1/Scale (1.0 is Scale, 0.2 is Scale/5), or as the value NaN.   *)
(* A product of two numbers is divided by Scale and a quotient multiplied  *)
(* by Scale; divisions truncate toward zero and square roots round up, so  *)
(* a rounded result is never larger in magnitude than the exact one.       *)
(*                                                                         *)
(* Objects.  A JavaScript object is a function from its property names to  *)
(* values; a property the object lacks is not in the DOMAIN.  Objects and  *)
(* arrays that can be shared live in a heap (objs, vecs) and are named by  *)
(* their addresses.                                                        *)
(***************************************************************************)
EXTENDS Integers, Sequences, FiniteSets, TLC

VARIABLES
    p,        \* the particle record handed to updateParticle
    call,     \* the last updateParticle call: its arguments and the particle before it
    steps,    \* number of operations made so far
    objs,     \* heap of weather-state objects: address -> (property name -> value)
    vecs,     \* heap of 3-element arrays: address -> <<x, y, z>>
    origin,   \* for each weather-state object, the operation that created it
    lastOp,   \* the last engine or scene operation on the heap
    pool,     \* the particle pool of a scene
    frame     \* the parameters and the starting point of the scene's last frame

vars == <<p, call, steps, objs, vecs, origin, lastOp, pool, frame>>

particleVars == <<p, call, steps>>
particleVarsButSteps == <<p, call>>
heapVars == <<objs, vecs, origin, lastOp>>
sceneVars == <<pool, frame>>

-----------------------------------------------------------------------------
(* Bounds of the model *)

\* number of scene operations on the particle explored per behaviour
MaxSteps == 2

\* largest root the square-root search tries (its square fits a 32-bit integer)
SqrtMax == 46000

\* number of engine and scene operations on weather states explored per behaviour
MaxOps == 3

\* number of consecutive frames a particle is followed while it coasts
MaxDecaySteps == 30

\* number of frames of the sunny scene explored per behaviour
MaxFrames == 2

-----------------------------------------------------------------------------
(* Numbers *)

\* fixed-point resolution: 1.0 is represented by Scale
Scale == 10 * 10

\* the not-a-number value, outside the range of every representable number
NaN == -(2 * 1000 * 1000 * 1000)

IsNaN(x) == x = NaN

\* truncating division (b > 0)
TruncDiv(a, b) == IF a >= 0 THEN a \div b ELSE -((-a) \div b)

\* a + b, a - b, a * b, a / b on numbers
fadd(a, b) == IF IsNaN(a) \/ IsNaN(b) THEN NaN ELSE a + b
fsub(a, b) == IF IsNaN(a) \/ IsNaN(b) THEN NaN ELSE a - b
fneg(a) == IF IsNaN(a) THEN NaN ELSE -a
fmul(a, b) == IF IsNaN(a) \/ IsNaN(b) THEN NaN ELSE TruncDiv(a * b, Scale)
\* a * (n / d) for a ratio of two numbers, d > 0 (x / len, x * (clamped / len))
fratio(a, n, d) ==
    IF IsNaN(a) \/ IsNaN(n) \/ IsNaN(d) THEN NaN
    ELSE TruncDiv(a * n, d)

\* Math.min, Math.max: NaN if either argument is NaN
MathMin(a, b) == IF IsNaN(a) \/ IsNaN(b) THEN NaN ELSE IF a < b THEN a ELSE b
MathMax(a, b) == IF IsNaN(a) \/ IsNaN(b) THEN NaN ELSE IF a > b THEN a ELSE b

RECURSIVE SqrtSearch(_, _, _)
SqrtSearch(n, lo, hi) ==
    IF lo >= hi THEN lo
    ELSE LET mid == (lo + hi) \div 2
         IN IF mid * mid >= n THEN SqrtSearch(n, lo, mid)
                              ELSE SqrtSearch(n, mid + 1, hi)

\* Math.sqrt of n (in units of 1/Scale^2), in units of 1/Scale
MathSqrt(n) == SqrtSearch(n, 0, IF n < SqrtMax THEN n ELSE SqrtMax)

-----------------------------------------------------------------------------
(* 4. Vector helpers (3D) *)

Zero3 == <<0, 0, 0>>

add(a, b) == <<fadd(a[1], b[1]), fadd(a[2], b[2]), fadd(a[3], b[3])>>

sub(a, b) == <<fsub(a[1], b[1]), fsub(a[2], b[2]), fsub(a[3], b[3])>>

mulScalar(v, s) == <<fmul(v[1], s), fmul(v[2], s), fmul(v[3], s)>>

HasNaN(v) == IsNaN(v[1]) \/ IsNaN(v[2]) \/ IsNaN(v[3])

\* v[0]*v[0] + v[1]*v[1] + v[2]*v[2], in units of 1/Scale^2
SumSq(v) == v[1] * v[1] + v[2] * v[2] + v[3] * v[3]

length(v) == IF HasNaN(v) THEN NaN ELSE MathSqrt(SumSq(v))

clampLength(v, minLen, maxLen) ==
    LET len == length(v)
        clamped == MathMin(MathMax(len, minLen), maxLen)
    IN IF len = 0 THEN v
       ELSE IF IsNaN(len) THEN <<NaN, NaN, NaN>>
       ELSE <<fratio(v[1], clamped, len), fratio(v[2], clamped, len),
              fratio(v[3], clamped, len)>>

\* normalizeSafe without the test for length zero: 0 / 0 is NaN
normalizeSafe_unguarded(v) ==
    LET len == length(v)
    IN IF len = 0 \/ IsNaN(len) THEN <<NaN, NaN, NaN>>
       ELSE <<fratio(v[1], Scale, len), fratio(v[2], Scale, len),
              fratio(v[3], Scale, len)>>

normalizeSafe(v) ==
    LET len == length(v)
    IN IF len = 0 THEN Zero3
       ELSE IF IsNaN(len) THEN <<NaN, NaN, NaN>>
       ELSE <<fratio(v[1], Scale, len), fratio(v[2], Scale, len),
              fratio(v[3], Scale, len)>>

\* mixVec with the two weights exchanged
mixVec_swapped(a, b, t) ==
    LET s == fsub(Scale, t)
    IN <<fadd(fmul(a[1], t), fmul(b[1], s)),
         fadd(fmul(a[2], t), fmul(b[2], s)),
         fadd(fmul(a[3], t), fmul(b[3], s))>>

mixVec(a, b, t) ==
    LET s == fsub(Scale, t)
    IN <<fadd(fmul(a[1], s), fmul(b[1], t)),
         fadd(fmul(a[2], s), fmul(b[2], t)),
         fadd(fmul(a[3], s), fmul(b[3], t))>>

\* clamp01 that lets every value through
clamp01_none(x) == x

clamp01(x) == MathMin(Scale, MathMax(0, x))

-----------------------------------------------------------------------------
(* 1. weatherState schema *)

\* the object literal of createDefaultWeatherState; fd is its flowDirection
\* property: the address of the fresh array [0, 0, 0] on the heap, or the
\* array itself where a weather state is passed by value
DefaultWeatherState(fd) ==
    [deformFactor |-> 0, shapeStrength |-> Scale, flowDirection |-> fd,
     flowSpeed |-> 0, turbulence |-> 0, noiseScaleLarge |-> Scale,
     noiseScaleSmall |-> Scale, verticalBias |-> 0, clusterStrength |-> 0,
     spawnRate |-> 0, lifeSpan |-> Scale, sizeMin |-> Scale, sizeMax |-> Scale,
     brightness |-> Scale, contrast |-> Scale, colorTemperature |-> Scale \div 2,
     softness |-> Scale \div 2, trailLength |-> (3 * Scale) \div 10]

\* o.k read as a number: a missing property is undefined, NaN in arithmetic
Has(o, k) == k \in DOMAIN o
Num(o, k) == IF Has(o, k) THEN o[k] ELSE NaN

\* { ...o, ...r }
Override(o, r) == [x \in DOMAIN o \cup DOMAIN r |-> IF x \in DOMAIN r THEN r[x] ELSE o[x]]

\* o without its property k
Without(o, k) == [x \in DOMAIN o \ {k} |-> o[x]]

\* { ...o, k: v }
With(o, k, v) == [x \in DOMAIN o \cup {k} |-> IF x = k THEN v ELSE o[x]]

-----------------------------------------------------------------------------
(* The heap of weather states.  H is a record [objs, vecs]; an address is   *)
(* an index into the sequence, 0 stands for undefined.                      *)

Undefined == 0

EmptyHeap == [objs |-> <<>>, vecs |-> <<>>]

\* the properties of the object at address o, its flowDirection array read out
View(H, o) ==
    [k \in DOMAIN H.objs[o] |->
        IF k = "flowDirection" THEN H.vecs[H.objs[o][k]] ELSE H.objs[o][k]]

\* createDefaultWeatherState with one module-level flowDirection array
createDefaultWeatherState_sharedArray(H) ==
    [objs |-> Append(H.objs, DefaultWeatherState(1)),
     vecs |-> IF H.vecs = <<>> THEN <<Zero3>> ELSE H.vecs,
     ws |-> Len(H.objs) + 1]

\* createDefaultWeatherState(): a new object holding a new array [0, 0, 0]
createDefaultWeatherState(H) ==
    [objs |-> Append(H.objs, DefaultWeatherState(Len(H.vecs) + 1)),
     vecs |-> Append(H.vecs, Zero3),
     ws |-> Len(H.objs) + 1]

-----------------------------------------------------------------------------
(* 2. applyMapping *)

\* const ws = baseState || createDefaultWeatherState(), without the copy
SpreadBase_alias(H, baseState) ==
    IF baseState # Undefined
    THEN [objs |-> H.objs, vecs |-> H.vecs, ws |-> baseState]
    ELSE createDefaultWeatherState(H)

\* const ws = { ...createDefaultWeatherState() }, whatever baseState is
SpreadBase_ignoreBase(H, baseState) ==
    createDefaultWeatherState(H)

\* const ws = { ...(baseState || createDefaultWeatherState()) }: a new object
\* with the properties of the base copied one by one (an array property is
\* copied as its address); the temporary default object is dropped
SpreadBase(H, baseState) ==
    IF baseState # Undefined
    THEN [objs |-> Append(H.objs, H.objs[baseState]),
          vecs |-> H.vecs,
          ws |-> Len(H.objs) + 1]
    ELSE createDefaultWeatherState(H)

\* normalizedInputs[cfg.from] !== undefined
InputDefined(normalizedInputs, cfg) ==
    Has(cfg, "from") /\ Has(normalizedInputs, cfg.from)

\* cfg.min + (cfg.max - cfg.min) * clamp01(t)
MappedValue(cfg, t) ==
    fadd(cfg.min, fmul(fsub(cfg.max, cfg.min), clamp01(t)))

\* one iteration that takes a missing input as 0 instead of skipping the rule
RuleStep_zeroInput(ws, normalizedInputs, key, cfg) ==
    IF ~InputDefined(normalizedInputs, cfg) THEN With(ws, key, MappedValue(cfg, 0))
    ELSE With(ws, key, MappedValue(cfg, normalizedInputs[cfg.from]))

\* one iteration writing ws[cfg.from] instead of ws[key]
RuleStep_writeFrom(ws, normalizedInputs, key, cfg) ==
    IF ~InputDefined(normalizedInputs, cfg) THEN ws
    ELSE With(ws, cfg.from, MappedValue(cfg, normalizedInputs[cfg.from]))

\* one iteration of the loop body on the object ws
RuleStep(ws, normalizedInputs, key, cfg) ==
    IF ~InputDefined(normalizedInputs, cfg) THEN ws
    ELSE With(ws, key, MappedValue(cfg, normalizedInputs[cfg.from]))

\* the loop with break in the place of continue
RECURSIVE MappingLoop_break(_, _, _)
MappingLoop_break(ws, normalizedInputs, mappingConfig) ==
    IF mappingConfig = <<>> THEN ws
    ELSE IF ~InputDefined(normalizedInputs, Head(mappingConfig).cfg) THEN ws
    ELSE MappingLoop_break(RuleStep(ws, normalizedInputs, Head(mappingConfig).key,
                                    Head(mappingConfig).cfg),
                           normalizedInputs, Tail(mappingConfig))

\* for (const key in mappingConfig) { ... }: mappingConfig is the sequence of
\* the entries [key, cfg] in iteration order
RECURSIVE MappingLoop(_, _, _)
MappingLoop(ws, normalizedInputs, mappingConfig) ==
    IF mappingConfig = <<>> THEN ws
    ELSE MappingLoop(RuleStep(ws, normalizedInputs, Head(mappingConfig).key,
                              Head(mappingConfig).cfg),
                     normalizedInputs, Tail(mappingConfig))

\* applyMapping(normalizedInputs, mappingConfig, baseState): the heap after
\* the call and the address ws it returns
applyMapping(H, normalizedInputs, mappingConfig, baseState) ==
    LET start == SpreadBase(H, baseState)
        ws == MappingLoop(start.objs[start.ws], normalizedInputs, mappingConfig)
    IN [objs |-> [start.objs EXCEPT ![start.ws] = ws],
        vecs |-> start.vecs,
        ws |-> start.ws]

-----------------------------------------------------------------------------
(* What the scenes do with weather states *)

EmptyObj == [x \in {} |-> 0]

\* o.k = x
WriteField(H, o, k, x) == [H EXCEPT !.objs[o] = With(H.objs[o], k, x)]

\* o.flowDirection[i] = x
WriteComponent(H, o, i, x) == [H EXCEPT !.vecs[H.objs[o].flowDirection][i] = x]

\* o.flowDirection = [x, y, z]: a new array
AssignFlowDirection(H, o, v) ==
    [objs |-> [H.objs EXCEPT ![o] = With(H.objs[o], "flowDirection", Len(H.vecs) + 1)],
     vecs |-> Append(H.vecs, v)]

\* { ...o, k1: v1, k2: v2 }: r holds the overriding properties
SpreadWith(H, o, r) ==
    [objs |-> Append(H.objs, Override(H.objs[o], r)),
     vecs |-> H.vecs,
     ws |-> Len(H.objs) + 1]

\* driving input snapshots of a frame
InputSnapshots ==
    { [precipitation |-> 2 * Scale, humidity |-> -Scale],
      [precipitation |-> Scale \div 2, uvIndex |-> Scale],
      [humidity |-> (3 * Scale) \div 10] }

\* mapping configs in iteration order
RainyMapping ==
    << [key |-> "shapeStrength",
        cfg |-> [from |-> "precipitation", min |-> 3 * Scale, max |-> Scale \div 2]],
       [key |-> "verticalBias",
        cfg |-> [from |-> "precipitation", min |-> 0, max |-> 10 * Scale]],
       [key |-> "brightness",
        cfg |-> [from |-> "humidity", min |-> 0, max |-> 10 * Scale]] >>

SunnyMapping ==
    << [key |-> "rotationSpeed",
        cfg |-> [from |-> "uvIndex", min |-> 0, max |-> (8 * Scale) \div 10]],
       [key |-> "turbulence",
        cfg |-> [from |-> "precipitation", min |-> Scale \div 10, max |-> Scale \div 2]] >>

\* a config whose rules are written with `to` instead of `from`
StarMapping ==
    << [key |-> "cloudCover",
        cfg |-> [to |-> "shapeForce", min |-> (2 * Scale) \div 5, max |-> (6 * Scale) \div 5]],
       [key |-> "airQuality",
        cfg |-> [to |-> "turbulence", min |-> 0, max |-> Scale \div 2]] >>

MappingConfigs == { <<>>, RainyMapping, SunnyMapping, StarMapping }

NoFrame == [kind |-> "none"]

InitSceneIdle ==
    /\ pool = <<>>
    /\ frame = NoFrame

NoOp ==
    [op |-> "none", base |-> Undefined, result |-> Undefined, inputs |-> EmptyObj,
     config |-> <<>>, before |-> EmptyHeap]

Heap == [objs |-> objs, vecs |-> vecs]

InitMapping ==
    /\ objs = <<>>
    /\ vecs = <<>>
    /\ origin = <<>>
    /\ lastOp = NoOp
    /\ steps = 0
    /\ p = [life |-> 0]
    /\ call = [kind |-> "none"]
    /\ InitSceneIdle

\* const baseState = createDefaultWeatherState()
CreateDefaultCall ==
    /\ steps < MaxOps
    /\ LET r == createDefaultWeatherState(Heap)
       IN /\ objs' = r.objs
          /\ vecs' = r.vecs
          /\ origin' = Append(origin, [by |-> "createDefaultWeatherState", base |-> Undefined])
          /\ lastOp' = [NoOp EXCEPT !.op = "createDefaultWeatherState",
                                    !.result = r.ws, !.before = Heap]
    /\ steps' = steps + 1
    /\ UNCHANGED <<particleVarsButSteps, sceneVars>>

\* const weatherState = applyMapping(normalizedInputs, mappingConfig, baseState),
\* with one of the scene's states as baseState, or without a baseState
ApplyMappingCall ==
    /\ steps < MaxOps
    /\ \E normalizedInputs \in InputSnapshots, mappingConfig \in MappingConfigs,
          baseState \in {Undefined} \cup DOMAIN objs :
         LET r == applyMapping(Heap, normalizedInputs, mappingConfig, baseState)
         IN /\ objs' = r.objs
            /\ vecs' = r.vecs
            /\ origin' = IF Len(r.objs) > Len(objs)
                         THEN Append(origin, [by |-> "applyMapping", base |-> baseState])
                         ELSE origin
            /\ lastOp' = [op |-> "applyMapping", base |-> baseState, result |-> r.ws,
                          inputs |-> normalizedInputs, config |-> mappingConfig,
                          before |-> Heap]
    /\ steps' = steps + 1
    /\ UNCHANGED <<particleVarsButSteps, sceneVars>>

\* a scene sets a scalar field of one of its states
\* (baseState.lifeSpan = 5.0, rainState.verticalBias = 2.0)
SceneWriteField ==
    /\ steps < MaxOps
    /\ \E o \in DOMAIN objs, w \in {<<"lifeSpan", 5 * Scale>>, <<"verticalBias", 2 * Scale>>} :
         LET r == WriteField(Heap, o, w[1], w[2])
         IN /\ objs' = r.objs
            /\ vecs' = r.vecs
            /\ lastOp' = [NoOp EXCEPT !.op = "writeField", !.result = o, !.before = Heap]
    /\ steps' = steps + 1
    /\ UNCHANGED <<origin, particleVarsButSteps, sceneVars>>

\* a scene gives one of its states a new flowDirection array
\* (rainState.flowDirection = [0.5, 0, 0.2])
SceneAssignFlowDirection ==
    /\ steps < MaxOps
    /\ \E o \in DOMAIN objs :
         LET r == AssignFlowDirection(Heap, o, <<Scale \div 2, 0, Scale \div 5>>)
         IN /\ objs' = r.objs
            /\ vecs' = r.vecs
            /\ lastOp' = [NoOp EXCEPT !.op = "assignFlowDirection", !.result = o,
                                      !.before = Heap]
    /\ steps' = steps + 1
    /\ UNCHANGED <<origin, particleVarsButSteps, sceneVars>>

\* a scene derives a state from another by spreading
\* (puddleState = { ...weatherState, verticalBias: 0.05, shapeStrength: 5.0 })
SceneSpread ==
    /\ steps < MaxOps
    /\ \E o \in DOMAIN objs :
         LET r == SpreadWith(Heap, o, [verticalBias |-> Scale \div 20,
                                       shapeStrength |-> 5 * Scale])
         IN /\ objs' = r.objs
            /\ vecs' = r.vecs
            /\ origin' = Append(origin, [by |-> "spread", base |-> o])
            /\ lastOp' = [NoOp EXCEPT !.op = "spread", !.base = o, !.result = r.ws,
                                      !.before = Heap]
    /\ steps' = steps + 1
    /\ UNCHANGED <<particleVarsButSteps, sceneVars>>

NextMapping ==
    \/ CreateDefaultCall
    \/ ApplyMappingCall
    \/ SceneWriteField
    \/ SceneAssignFlowDirection
    \/ SceneSpread

SpecMapping == InitMapping /\ [][NextMapping]_vars

-----------------------------------------------------------------------------
(* 3. updateParticle -- shared flow field rule *)

maxSpeed == 5 * Scale
smoothingFactor == Scale \div 5
smallTurbulenceFactor == Scale \div 2
smallTimeOffset == 100 * Scale
\* 1 / 0.0001, the reciprocal of the floor of lifeSpan
InvLifeSpanFloor == 10000

\* SUNNY_MAPPING, the rules that write fields read by the engine or by the
\* scene's projectors and noise fields, in iteration order
SUNNY_MAPPING ==
    << [key |-> "turbulence",
        cfg |-> [from |-> "uvIndex", min |-> Scale \div 10, max |-> Scale \div 2]],
       [key |-> "flowSpeed",
        cfg |-> [from |-> "uvIndex", min |-> Scale \div 5, max |-> (3 * Scale) \div 2]],
       [key |-> "noiseScaleLarge",
        cfg |-> [from |-> "uvIndex", min |-> Scale, max |-> 2 * Scale]],
       [key |-> "rotationSpeed",
        cfg |-> [from |-> "uvIndex", min |-> 0, max |-> (4 * Scale) \div 5]],
       [key |-> "inwardPull",
        cfg |-> [from |-> "uvIndex", min |-> (3 * Scale) \div 2, max |-> 0]],
       [key |-> "photonSpeed",
        cfg |-> [from |-> "uvIndex", min |-> Scale, max |-> 4 * Scale]],
       [key |-> "colorTemperature",
        cfg |-> [from |-> "temperature", min |-> 0, max |-> Scale]],
       [key |-> "lifeSpan",
        cfg |-> [from |-> "uvIndex", min |-> 2 * Scale, max |-> 4 * Scale]] >>

\* const ws = applyMapping(normalizedInputs, SUNNY_MAPPING, baseState), with
\* baseState = createDefaultWeatherState(), read out as a record
SunnyMapped(normalizedInputs) ==
    LET base == createDefaultWeatherState(EmptyHeap)
        mapped == applyMapping(base, normalizedInputs, SUNNY_MAPPING, base.ws)
    IN View(mapped, mapped.ws)

\* the ws the projector and noise wrappers of the frame close over
\* (they read only fields the particle loop does not write)
SunnyEnv ==
    IF Has(frame, "inputs") THEN SunnyMapped(frame.inputs)
    ELSE DefaultWeatherState(Zero3)

\* stands for the simplex noise3D: some fixed function into [-1, 1]
noise3D(x, y, z) == ((x + 2 * y + 3 * z) % (2 * Scale + 1)) - Scale

\* o.k || d for a number
NumOr(o, k, d) == IF Has(o, k) /\ o[k] # 0 /\ ~IsNaN(o[k]) THEN o[k] ELSE d

\* r / (len + 0.001) times pos; the 0.001 only matters at pos = [0,0,0]
projectToCore(pos, ws) ==
    LET len == MathSqrt(SumSq(pos))
    IN IF len = 0 THEN Zero3
       ELSE <<fratio(pos[1], 2 * Scale, len), fratio(pos[2], 2 * Scale, len),
              fratio(pos[3], 2 * Scale, len)>>

\* the radius is kept and z is flattened by 0.4; the angle is left as it is
\* (a particle inside the clamped width of its wedge)
projectToWedge(pos, ws) == <<pos[1], pos[2], fmul(pos[3], (2 * Scale) \div 5)>>

projectToPhoton(pos, ws) == pos

projectToFlare(pos, ws) == pos

sunNoiseFn(pos, time, ws) ==
    LET scale == NumOr(ws, "noiseScaleLarge", Scale)
        t == fmul(time, Scale \div 2)
        n1 == noise3D(fmul(pos[1], scale), fmul(pos[2], scale), t)
        n2 == noise3D(fmul(pos[2], scale), fmul(pos[3], scale), t + 100 * Scale)
        n3 == noise3D(fmul(pos[3], scale), fmul(pos[1], scale), t + 200 * Scale)
        inwardPull == NumOr(ws, "inwardPull", 0)
        len == MathSqrt(SumSq(pos)) + Scale \div 100
        rx == fneg(fmul(fratio(pos[1], Scale, len), inwardPull))
        ry == fneg(fmul(fratio(pos[2], Scale, len), inwardPull))
        rz == fmul(fneg(fmul(fratio(pos[3], Scale, len), inwardPull)),
                   (3 * Scale) \div 10)
    IN <<n1 + rx, n2 + ry, n3 + rz>>

photonFlowFn(pos, time, ws) ==
    LET len == MathSqrt(SumSq(pos)) + Scale \div 100
        rx == fratio(pos[1], Scale, len)
        ry == fratio(pos[2], Scale, len)
        rz == fratio(pos[3], Scale, len)
        swirlX == -ry
        swirlY == rx
        n == noise3D(pos[1], pos[2], time)
    IN <<rx * 5 + swirlX * 2 + fmul(n, Scale \div 2),
         ry * 5 + swirlY * 2 + fmul(n, Scale \div 2),
         rz * 5>>

\* RAINY_MAPPING of the rain scene, in iteration order
RAINY_MAPPING ==
    << [key |-> "shapeStrength",
        cfg |-> [from |-> "precipitation", min |-> 3 * Scale, max |-> Scale \div 2]],
       [key |-> "turbulence",
        cfg |-> [from |-> "precipitation", min |-> Scale \div 10, max |-> Scale]],
       [key |-> "verticalBias",
        cfg |-> [from |-> "precipitation", min |-> 10 * Scale, max |-> 40 * Scale]],
       [key |-> "deformFactor",
        cfg |-> [from |-> "humidity", min |-> 0, max |-> Scale]],
       [key |-> "trailLength",
        cfg |-> [from |-> "precipitation", min |-> Scale \div 10, max |-> Scale \div 2]],
       [key |-> "sizeMin",
        cfg |-> [from |-> "humidity", min |-> (3 * Scale) \div 10, max |-> Scale \div 2]],
       [key |-> "lifeSpan",
        cfg |-> [from |-> "precipitation", min |-> 12 * Scale, max |-> 13 * Scale]] >>

\* const weatherState = applyMapping(normalizedInputs, RAINY_MAPPING, baseState),
\* with baseState = createDefaultWeatherState(), read out as a record
RainMapped(normalizedInputs) ==
    LET base == createDefaultWeatherState(EmptyHeap)
        mapped == applyMapping(base, normalizedInputs, RAINY_MAPPING, base.ws)
    IN View(mapped, mapped.ws)

\* the weatherState the projector and noise wrappers of a rain frame close
\* over, and what Math.random() gives the next call of the projector
RainEnv ==
    IF Has(frame, "inputs") THEN RainMapped(frame.inputs)
    ELSE DefaultWeatherState(Zero3)

RainJitterDraw == IF Has(frame, "jitter") THEN frame.jitter ELSE Scale \div 2

\* Math.round and Math.floor of a number, as numbers
MathFloor(x) == IF IsNaN(x) THEN NaN ELSE (x \div Scale) * Scale
MathRound(x) == IF IsNaN(x) THEN NaN ELSE MathFloor(x + Scale \div 2)

\* projectToRainSystem: the target keeps y and z of the position; x is
\* jittered above abstraction 0.3 and quantized to half units above 0.7 (the
\* puddle target the function also computes is not returned); random is the
\* value of its Math.random()
projectToRainSystem(pos, weatherState, random) ==
    LET abstraction == IF Has(weatherState, "deformFactor")
                       THEN weatherState.deformFactor ELSE 0
        jitter == fmul(fmul(fsub(random, Scale \div 2), abstraction), Scale \div 5)
        jittered == IF abstraction > (3 * Scale) \div 10 THEN fadd(pos[1], jitter)
                    ELSE pos[1]
        targetX == IF abstraction > (7 * Scale) \div 10
                   THEN fratio(MathRound(fmul(jittered, 2 * Scale)), Scale, 2 * Scale)
                   ELSE jittered
    IN <<targetX, pos[2], pos[3]>>

\* rainNoise: fluid noise below t = 0.6 plus glitch noise of quantized
\* positions above t = 0.4, t = weatherState.precipitation ?? 0.0
rainNoise(pos, time, weatherState) ==
    LET t == IF Has(weatherState, "precipitation") THEN weatherState.precipitation ELSE 0
        scale == (3 * Scale) \div 10
        fluid == IF t < (6 * Scale) \div 10
                 THEN <<noise3D(fmul(pos[1], scale), fmul(pos[2], scale),
                                fmul(time, Scale \div 5)),
                        noise3D(fmul(pos[2], scale), fmul(pos[3], scale),
                                fmul(time, Scale \div 5) + 100 * Scale),
                        noise3D(fmul(pos[3], scale), fmul(pos[1], scale),
                                fmul(time, Scale \div 5) + 200 * Scale)>>
                 ELSE Zero3
        q == Scale + 5 * t
        qx == fratio(MathFloor(fmul(pos[1], q)), Scale, q)
        qy == fratio(MathFloor(fmul(pos[2], 10 * q)), Scale, 10 * q)
        qz == fratio(MathFloor(fmul(pos[3], q)), Scale, q)
        glitchIntensity == 2 * (t - (4 * Scale) \div 10)
        glitch == IF t > (4 * Scale) \div 10
                  THEN <<fmul(noise3D(2 * qx, 20 * qy, 5 * time), glitchIntensity),
                         fmul(noise3D(TruncDiv(qy, 2), 2 * time, 0), glitchIntensity),
                         fmul(noise3D(2 * qz, 20 * qy, 5 * time + 43 * Scale),
                              glitchIntensity)>>
                  ELSE Zero3
    IN add(fluid, glitch)

\* the shape projectors a caller may pass ("none": no projector argument);
\* the next four are the wrappers of the sunny scene and the last two those
\* of the rain scene
Projectors ==
    {"none", "identity", "origin", "shift",
     "coreProjector", "wedgeProjector", "photonProjector", "flareProjector",
     "puddleProjector", "rainProjector"}

projectToShape(proj, pos) ==
    CASE proj = "identity" -> pos
      [] proj = "origin" -> Zero3
      [] proj = "shift" -> add(pos, <<Scale, 0, 0>>)
      [] proj = "coreProjector" -> projectToCore(pos, SunnyEnv)
      [] proj = "wedgeProjector" -> projectToWedge(pos, SunnyEnv)
      [] proj = "photonProjector" -> projectToPhoton(pos, SunnyEnv)
      [] proj = "flareProjector" -> projectToFlare(pos, SunnyEnv)
      [] proj = "puddleProjector" ->
           projectToRainSystem(pos,
                               With(RainEnv, "precipitation",
                                    MathMin(IF Has(frame.inputs, "precipitation")
                                            THEN frame.inputs.precipitation ELSE 0,
                                            (4 * Scale) \div 10)),
                               RainJitterDraw)
      [] proj = "rainProjector" -> projectToRainSystem(pos, RainEnv, RainJitterDraw)

\* the noise fields a caller may pass ("none": no noise argument); the last
\* three are the wrappers of the sunny scene and of the rain scene
NoiseFns ==
    {"none", "zero", "wind", "swirl", "generalNoise", "photonNoise", "wrappedNoiseFn"}

noiseFn(noise, pos, t) ==
    CASE noise = "zero" -> Zero3
      [] noise = "wind" -> <<3 * Scale, 0, 4 * Scale>>
      [] noise = "swirl" -> <<fneg(pos[2]), fadd(pos[1], t), fsub(pos[3], t)>>
      [] noise = "generalNoise" -> sunNoiseFn(pos, t, SunnyEnv)
      [] noise = "photonNoise" -> photonFlowFn(pos, t, SunnyEnv)
      [] noise = "wrappedNoiseFn" -> rainNoise(pos, t, RainEnv)

\* the fallback that starts a particle without life at life 0
Fallback_lifeZero(q) ==
    LET q1 == IF Has(q, "position") THEN q ELSE With(q, "position", Zero3)
        q2 == IF Has(q1, "velocity") THEN q1 ELSE With(q1, "velocity", Zero3)
    IN IF Has(q2, "life") THEN q2 ELSE With(q2, "life", 0)

Fallback(q) ==
    LET q1 == IF Has(q, "position") THEN q ELSE With(q, "position", Zero3)
        q2 == IF Has(q1, "velocity") THEN q1 ELSE With(q1, "velocity", Zero3)
    IN IF Has(q2, "life") THEN q2 ELSE With(q2, "life", Scale)

\* const t = time || 0
TimeOr0(time) == IF IsNaN(time) THEN 0 ELSE time

\* the arguments of the calls of the projector made by one updateParticle call
ProjectorCalls(q, proj) ==
    IF proj # "none" THEN <<q.position>> ELSE <<>>

\* both noise samples taken at the large scale and the same time
NoiseCalls_sameSample(q, weatherState, noise, t) ==
    IF noise # "none"
    THEN <<[pos |-> mulScalar(q.position, Num(weatherState, "noiseScaleLarge")), t |-> t],
           [pos |-> mulScalar(q.position, Num(weatherState, "noiseScaleLarge")), t |-> t]>>
    ELSE <<>>

\* the arguments of the calls of the noise field made by one updateParticle
\* call, in call order: (posLarge, t) and (posSmall, t + 100.0)
NoiseCalls(q, weatherState, noise, t) ==
    IF noise # "none"
    THEN <<[pos |-> mulScalar(q.position, Num(weatherState, "noiseScaleLarge")), t |-> t],
           [pos |-> mulScalar(q.position, Num(weatherState, "noiseScaleSmall")),
            t |-> fadd(t, smallTimeOffset)]>>
    ELSE <<>>

\* v_shape that takes the origin as shape point when there is no projector
v_shape_pullToOrigin(q, weatherState, proj) ==
    LET shapePos == IF proj # "none"
                    THEN projectToShape(proj, ProjectorCalls(q, proj)[1])
                    ELSE Zero3
        dirShape == sub(shapePos, q.position)
        dirShapeNorm == normalizeSafe(dirShape)
        wShape == fmul(Num(weatherState, "shapeStrength"),
                       fsub(Scale, clamp01(Num(weatherState, "deformFactor"))))
    IN mulScalar(dirShapeNorm, wShape)

v_shape(q, weatherState, proj) ==
    LET shapePos == IF proj # "none"
                    THEN projectToShape(proj, ProjectorCalls(q, proj)[1])
                    ELSE q.position
        dirShape == sub(shapePos, q.position)
        dirShapeNorm == normalizeSafe(dirShape)
        wShape == fmul(Num(weatherState, "shapeStrength"),
                       fsub(Scale, clamp01(Num(weatherState, "deformFactor"))))
    IN mulScalar(dirShapeNorm, wShape)

v_large(q, weatherState, noise, t) ==
    LET nLarge == IF noise # "none"
                  THEN LET c == NoiseCalls(q, weatherState, noise, t)[1]
                       IN noiseFn(noise, c.pos, c.t)
                  ELSE Zero3
    IN mulScalar(normalizeSafe(nLarge), Num(weatherState, "turbulence"))

v_small(q, weatherState, noise, t) ==
    LET nSmall == IF noise # "none"
                  THEN LET c == NoiseCalls(q, weatherState, noise, t)[2]
                       IN noiseFn(noise, c.pos, c.t)
                  ELSE Zero3
    IN mulScalar(normalizeSafe(nSmall),
                 fmul(Num(weatherState, "turbulence"), smallTurbulenceFactor))

\* a missing flowDirection taken as the x axis
v_direction_xAxis(weatherState) ==
    LET dir == normalizeSafe(IF Has(weatherState, "flowDirection")
                             THEN weatherState.flowDirection ELSE <<Scale, 0, 0>>)
    IN mulScalar(dir, Num(weatherState, "flowSpeed"))

v_direction(weatherState) ==
    LET dir == normalizeSafe(IF Has(weatherState, "flowDirection")
                             THEN weatherState.flowDirection ELSE Zero3)
    IN mulScalar(dir, Num(weatherState, "flowSpeed"))

v_vertical(weatherState) == <<0, fneg(Num(weatherState, "verticalBias")), 0>>

\* v = v_shape + v_large + v_small + v_direction + v_vertical
TargetVelocity(q, weatherState, proj, noise, t) ==
    add(v_shape(q, weatherState, proj),
        add(v_large(q, weatherState, noise, t),
            add(v_small(q, weatherState, noise, t),
                add(v_direction(weatherState), v_vertical(weatherState)))))

\* the speed limit applied to the target velocity before the smoothing
NewVelocity_clampTarget(q, weatherState, proj, noise, t) ==
    mixVec(q.velocity,
           clampLength(TargetVelocity(q, weatherState, proj, noise, t), 0, maxSpeed),
           smoothingFactor)

\* the smoothed and speed-limited velocity of the step
NewVelocity(q, weatherState, proj, noise, t) ==
    clampLength(mixVec(q.velocity,
                       TargetVelocity(q, weatherState, proj, noise, t),
                       smoothingFactor),
                0, maxSpeed)

\* the floor of lifeSpan taken as 1.0 instead of 0.0001
LifeDecrement_floorOne(dt, weatherState) ==
    LET lifeSpan == Num(weatherState, "lifeSpan")
    IN IF IsNaN(lifeSpan) THEN NaN
       ELSE IF lifeSpan >= Scale THEN fratio(dt, Scale, lifeSpan)
       ELSE dt

\* dt / Math.max(weatherState.lifeSpan, 0.0001)
LifeDecrement(dt, weatherState) ==
    LET lifeSpan == Num(weatherState, "lifeSpan")
    IN IF IsNaN(lifeSpan) THEN NaN
       ELSE IF lifeSpan >= 1 THEN fratio(dt, Scale, lifeSpan)
       ELSE dt * InvLifeSpanFloor

\* the particle record after updateParticle(q0, dt, weatherState, proj, noise, time)
\* updateParticle that recycles a particle whose life has run out
updateParticle_recycle(q0, dt, weatherState, proj, noise, time) ==
    LET q == Fallback(q0)
        t == TimeOr0(time)
        v == NewVelocity(q, weatherState, proj, noise, t)
    IN [x \in DOMAIN q |->
          CASE x = "position" -> add(q.position, mulScalar(v, dt))
            [] x = "velocity" -> v
            [] x = "life" -> IF q.life <= 0 THEN Scale
                             ELSE fsub(q.life, LifeDecrement(dt, weatherState))
            [] OTHER -> q[x]]

\* updateParticle that stores a new record holding only what it computed
updateParticle_bare(q0, dt, weatherState, proj, noise, time) ==
    LET q == Fallback(q0)
        t == TimeOr0(time)
        v == NewVelocity(q, weatherState, proj, noise, t)
    IN [position |-> add(q.position, mulScalar(v, dt)),
        velocity |-> v,
        life |-> fsub(q.life, LifeDecrement(dt, weatherState))]

updateParticle(q0, dt, weatherState, proj, noise, time) ==
    LET q == Fallback(q0)
        t == TimeOr0(time)
        v == NewVelocity(q, weatherState, proj, noise, t)
    IN [x \in DOMAIN q |->
          CASE x = "position" -> add(q.position, mulScalar(v, dt))
            [] x = "velocity" -> v
            [] x = "life" -> fsub(q.life, LifeDecrement(dt, weatherState))
            [] OTHER -> q[x]]

\* the properties of the particle that updateParticle assigns
ParticleWrites == {"position", "velocity", "life"}

\* the weatherState object after the call: updateParticle assigns none of
\* its properties and no component of its flowDirection array
WeatherStateAfter(weatherState) == weatherState

-----------------------------------------------------------------------------
(* The particle specification: one particle of a scene's pool, advanced by  *)
(* updateParticle with the weather states the scenes build, and respawned   *)
(* by the scene.                                                           *)

DefaultState == DefaultWeatherState(Zero3)


\* weather states handed to updateParticle, with every field present
WeatherStates ==
    { DefaultState,
      \* vertical bias only
      Override(DefaultState, [verticalBias |-> 10 * Scale]),
      \* rain in a storm: high gravity, weak shape grip
      Override(DefaultState, [verticalBias |-> 45 * Scale, shapeStrength |-> Scale \div 2,
                              turbulence |-> Scale, lifeSpan |-> 2 * Scale]),
      \* mist: gentle fall with horizontal drift
      Override(DefaultState, [verticalBias |-> 2 * Scale, flowDirection |-> <<50, 0, 20>>,
                              flowSpeed |-> Scale, deformFactor |-> Scale \div 2]),
      \* snow storm: extreme turbulence and wind, shape fully deformed
      Override(DefaultState, [turbulence |-> 6 * Scale, flowSpeed |-> 16 * Scale,
                              flowDirection |-> <<0, 0, -Scale>>, deformFactor |-> Scale,
                              noiseScaleSmall |-> 4 * Scale, lifeSpan |-> 5 * Scale]),
      \* puddle: low gravity, strong shape grip
      Override(DefaultState, [verticalBias |-> 5, shapeStrength |-> 5 * Scale,
                              turbulence |-> 10]) }

\* frame times dt (seconds)
DtValues == {Scale \div 10, Scale}

\* what a scene passes with the particle: <<projector, noise field, time>>
SceneSetups ==
    { <<"none", "none", 0>>,
      <<"identity", "zero", 0>>,
      <<"origin", "wind", 3 * Scale>>,
      <<"shift", "swirl", 3 * Scale>> }

\* the rain states of the rain scene, whose fall speed a respawn copies
RainStates == {ws \in WeatherStates : ws.verticalBias >= 2 * Scale /\ ws.turbulence <= Scale}

\* initial <<position, velocity>> of the particle
InitParticles ==
    { <<Zero3, Zero3>>,
      <<Zero3, <<3 * Scale, 4 * Scale, 0>>>>,
      <<<<2 * Scale, 25 * Scale, -Scale>>, <<6 * Scale, -2 * Scale, 8 * Scale>>>> }

NoCall ==
    [kind |-> "none", q0 |-> [life |-> 0], dt |-> 0, weatherState |-> DefaultState,
     proj |-> "none", noise |-> "none", time |-> 0]

InitHeapIdle ==
    /\ objs = <<>>
    /\ vecs = <<>>
    /\ origin = <<>>
    /\ lastOp = NoOp

InitParticle ==
    /\ p \in { [position |-> pv[1], velocity |-> pv[2], life |-> Scale, isRain |-> FALSE] :
                 pv \in InitParticles }
    /\ call = NoCall
    /\ steps = 0
    /\ InitHeapIdle
    /\ InitSceneIdle

\* a scene's per-particle call updateParticle(p, dt, state, projector, noise, time)
UpdateParticleCall ==
    /\ steps < MaxSteps
    /\ \E dt \in DtValues, weatherState \in WeatherStates, setup \in SceneSetups :
         /\ p' = updateParticle(p, dt, weatherState, setup[1], setup[2], setup[3])
         /\ call' = [kind |-> "updateParticle", q0 |-> p, dt |-> dt,
                     weatherState |-> weatherState, proj |-> setup[1],
                     noise |-> setup[2], time |-> setup[3]]
    /\ steps' = steps + 1
    /\ UNCHANGED <<heapVars, sceneVars>>

\* the rain scene respawns a dead particle as rain from the sky with the
\* fall velocity of its rain state
RespawnAsRain ==
    /\ call.kind # "respawn"
    /\ steps < MaxSteps
    /\ \E weatherState \in RainStates :
         /\ p' = [p EXCEPT !.position = <<p.position[1], 20 * Scale, p.position[3]>>,
                           !.velocity = <<0, fneg(weatherState.verticalBias), 0>>,
                           !.isRain = TRUE,
                           !.life = Scale]
         /\ call' = [NoCall EXCEPT !.kind = "respawn", !.q0 = p,
                                   !.weatherState = weatherState]
    /\ steps' = steps + 1
    /\ UNCHANGED <<heapVars, sceneVars>>

NextParticle == UpdateParticleCall \/ RespawnAsRain

SpecParticle == InitParticle /\ [][NextParticle]_vars

-----------------------------------------------------------------------------
(* The call specification: one updateParticle call on any particle record   *)
(* and any weather state, complete or not.                                  *)

\* the fields of a weather state that updateParticle reads as numbers
OptionalFields ==
    {"shapeStrength", "deformFactor", "turbulence", "noiseScaleLarge",
     "noiseScaleSmall", "flowSpeed", "verticalBias", "lifeSpan"}

\* a state in which every term of the velocity is at work
GustState ==
    Override(DefaultState, [verticalBias |-> 2 * Scale, flowDirection |-> <<50, 0, 20>>,
                            flowSpeed |-> Scale, deformFactor |-> Scale \div 2,
                            turbulence |-> Scale, noiseScaleLarge |-> Scale \div 2,
                            lifeSpan |-> 2 * Scale])

\* strong forces on degenerate directions: flowDirection is the zero vector
DegenerateState ==
    Override(DefaultState, [shapeStrength |-> 5 * Scale, turbulence |-> 6 * Scale,
                            flowSpeed |-> 16 * Scale])

CallStates ==
    WeatherStates
    \cup { GustState, DegenerateState,
           \* shape fully deformed and beyond, with a strong shape pull
           Override(DefaultState, [deformFactor |-> 2 * Scale, shapeStrength |-> 5 * Scale]),
           \* life spans at and below the floor
           Override(DefaultState, [lifeSpan |-> 0]),
           Override(GustState, [lifeSpan |-> -Scale]),
           \* no flowDirection
           Without(GustState, "flowDirection"),
           Without(DegenerateState, "flowDirection") }
    \cup { Without(GustState, k) : k \in OptionalFields }

\* particle records, complete or lacking position, velocity or life
CallParticles ==
    { [position |-> pv[1], velocity |-> pv[2], life |-> Scale, isRain |-> FALSE] :
        pv \in InitParticles }
    \cup { [isRain |-> TRUE],
           [position |-> <<2 * Scale, 25 * Scale, -Scale>>, isRain |-> TRUE],
           [velocity |-> <<3 * Scale, 4 * Scale, 0>>, life |-> Scale \div 2, isRain |-> FALSE],
           [position |-> <<-Scale, 0, 3 * Scale>>, velocity |-> <<0, -Scale, 0>>,
            isRain |-> FALSE],
           \* a landed rain drop that sparkles, with the tags of the rain scene
           [position |-> <<Scale, -15 * Scale, 0>>, velocity |-> <<0, 2 * Scale, 0>>,
            life |-> Scale \div 2, maxLife |-> 3 * Scale, isRain |-> TRUE,
            isSparkle |-> TRUE] }

\* what a caller passes with the particle: the scenes' arguments, a call
\* with a noise field only, and a call with a projector only and no time
CallSetups ==
    SceneSetups \cup { <<"none", "wind", 3 * Scale>>, <<"shift", "none", NaN>> }

InitCall ==
    /\ p \in CallParticles
    /\ call = NoCall
    /\ steps = 0
    /\ InitHeapIdle
    /\ InitSceneIdle

\* updateParticle(p, dt, weatherState, projector, noise, time), once
EngineCall ==
    /\ call.kind = "none"
    /\ \E dt \in DtValues, weatherState \in CallStates, setup \in CallSetups :
         /\ p' = updateParticle(p, dt, weatherState, setup[1], setup[2], setup[3])
         /\ call' = [kind |-> "call", q0 |-> p, dt |-> dt,
                     weatherState |-> weatherState,
                     wsAfter |-> WeatherStateAfter(weatherState), proj |-> setup[1],
                     noise |-> setup[2], time |-> setup[3],
                     shape |-> v_shape(Fallback(p), weatherState, setup[1]),
                     large |-> v_large(Fallback(p), weatherState, setup[2],
                                       TimeOr0(setup[3])),
                     small |-> v_small(Fallback(p), weatherState, setup[2],
                                       TimeOr0(setup[3])),
                     direction |-> v_direction(weatherState),
                     projCalls |-> ProjectorCalls(Fallback(p), setup[1]),
                     noiseCalls |-> NoiseCalls(Fallback(p), weatherState, setup[2],
                                               TimeOr0(setup[3]))]
    /\ steps' = steps + 1
    /\ UNCHANGED <<heapVars, sceneVars>>

NextCall == EngineCall

SpecCall == InitCall /\ [][NextCall]_vars

-----------------------------------------------------------------------------
(* The coasting specification: a particle with some velocity is updated     *)
(* frame after frame with the identity projector and a weather state whose  *)
(* turbulence, flowSpeed and verticalBias are zero.                         *)

\* weather states without turbulence, flow and vertical bias
QuietStates ==
    { DefaultState,
      Override(DefaultState, [shapeStrength |-> 5 * Scale, lifeSpan |-> 5 * Scale]) }

\* identity projector, with a noise field that returns zero or a wind
QuietSetups == { <<"identity", "zero", 0>>, <<"identity", "wind", 3 * Scale>> }

\* velocities at the start: below the speed limit, on it and above it
\* (a rain respawn sets a fall speed of up to 45)
CoastVelocities ==
    { <<3 * Scale, 4 * Scale, 0>>,
      <<Scale, -2 * Scale, 2 * Scale>>,
      <<6 * Scale, -2 * Scale, 8 * Scale>>,
      <<0, -45 * Scale, 0>> }

CoastStart == <<2 * Scale, 25 * Scale, -Scale>>

InitDecay ==
    /\ \E v \in CoastVelocities :
         p = [position |-> CoastStart, velocity |-> v, life |-> Scale, isRain |-> FALSE]
    /\ call = NoCall
    /\ steps = 0
    /\ InitHeapIdle
    /\ pool = <<>>
    /\ \E dt \in DtValues, weatherState \in QuietStates, setup \in QuietSetups :
         frame = [kind |-> "coast", dt |-> dt, weatherState |-> weatherState,
                  setup |-> setup]

\* one frame of the render loop: updateParticle with the frame's arguments
DecayStep ==
    /\ steps < MaxDecaySteps
    /\ p' = updateParticle(p, frame.dt, frame.weatherState,
                           frame.setup[1], frame.setup[2], frame.setup[3])
    /\ call' = [kind |-> "updateParticle", q0 |-> p, dt |-> frame.dt,
                weatherState |-> frame.weatherState, proj |-> frame.setup[1],
                noise |-> frame.setup[2], time |-> frame.setup[3]]
    /\ steps' = steps + 1
    /\ UNCHANGED <<heapVars, sceneVars>>

NextDecay == DecayStep

\* a frame is due: the step that counts it is the DecayStep of that frame
FrameDue == steps < MaxDecaySteps /\ steps' = steps + 1

\* the render loop runs a frame whenever one is due
SpecDecay == InitDecay /\ [][NextDecay]_vars /\ WF_steps(FrameDue)

-----------------------------------------------------------------------------
(* The falling specification: a particle at rest is updated frame after     *)
(* frame with a constant weather state in which only the vertical bias      *)
(* contributes.                                                             *)

\* vertical biases: none, the puddle's, the mist's, the speed limit, the
\* rain mapping's, the value whose fifth is the speed limit, and the storm's
FallBiases ==
    { 0, Scale \div 20, 2 * Scale, 5 * Scale, 10 * Scale, 25 * Scale, 40 * Scale,
      45 * Scale }

\* no shape pull, no turbulence, no flow
FallState(b) == Override(DefaultState, [verticalBias |-> b, shapeStrength |-> 0])

FallSetups == { <<"none", "none", 0>>, <<"origin", "wind", 3 * Scale>> }

InitFall ==
    /\ p = [position |-> <<Scale, 20 * Scale, 0>>, velocity |-> Zero3, life |-> Scale,
            isRain |-> TRUE]
    /\ call = NoCall
    /\ steps = 0
    /\ InitHeapIdle
    /\ pool = <<>>
    /\ \E dt \in DtValues, b \in FallBiases, setup \in FallSetups :
         frame = [kind |-> "fall", dt |-> dt, weatherState |-> FallState(b),
                  setup |-> setup]

\* the frames are those of the coasting specification
SpecFall == InitFall /\ [][NextDecay]_vars

-----------------------------------------------------------------------------
(* The sunny scene: update(dt, time, normalizedInputs) runs the particle    *)
(* loop over the whole pool, with one weather state object for the frame.   *)

TYPE_CORE == 0
TYPE_WEDGE == 1
TYPE_PHOTON == 2
TYPE_FLARE == 3

\* ws after applyMapping, ws.time = time and ws.globalRotationSpeed = ...
SunnyWs(normalizedInputs, time) ==
    LET ws == SunnyMapped(normalizedInputs)
    IN With(With(ws, "time", time),
            "globalRotationSpeed", IF Has(ws, "rotationSpeed") THEN ws.rotationSpeed ELSE 0)

\* p.position = ...; p.life = 1.0; p.velocity = [0,0,0]
Respawned(q, position) ==
    [q EXCEPT !.position = position, !.life = Scale, !.velocity = Zero3]

\* x*x + y*y > r*r, for Math.sqrt(x**2 + y**2) > r
Beyond(x, y, r) == x * x + y * y > r * r

\* the branch of a core particle: what it writes to ws and to the particle
\* before the call of updateParticle
CoreBranch(q, ws, draws) ==
    LET q1 == IF q.life <= 0 THEN Respawned(q, draws.core) ELSE q
        q2 == IF SumSq(q1.position) > ((7 * Scale) \div 2) * ((7 * Scale) \div 2)
              THEN Respawned(q1, Zero3) ELSE q1
    IN [p |-> q2,
        ws |-> With(With(ws, "shapeStrength", 5 * Scale), "turbulence", Scale \div 5),
        projector |-> "coreProjector", nFn |-> "generalNoise"]

\* the branch of a wedge particle; ws.turbulence = ws.turbulence keeps the
\* value ws holds when the particle is reached
WedgeBranch(q, ws, draws) ==
    LET q1 == IF q.life <= 0 \/ Beyond(q.position[1], q.position[2], 45 * Scale)
              THEN Respawned(q, draws.wedge) ELSE q
    IN [p |-> q1,
        ws |-> With(With(ws, "shapeStrength", 2 * Scale), "turbulence", ws.turbulence),
        projector |-> "wedgeProjector", nFn |-> "generalNoise"]

PhotonBranch(q, ws, draws) ==
    LET q1 == IF Beyond(q.position[1], q.position[2], 40 * Scale) \/ q.life <= 0
              THEN Respawned(q, draws.photon) ELSE q
    IN [p |-> q1,
        ws |-> With(With(ws, "shapeStrength", 0), "turbulence", Scale),
        projector |-> "photonProjector", nFn |-> "photonNoise"]

\* if (x > 30) x = -30; if (x < -30) x = 30
Wrap(x) ==
    LET x1 == IF x > 30 * Scale THEN -(30 * Scale) ELSE x
    IN IF x1 < -(30 * Scale) THEN 30 * Scale ELSE x1

FlareBranch(q, ws, draws) ==
    [p |-> [q EXCEPT !.position = <<Wrap(q.position[1]), Wrap(q.position[2]),
                                    q.position[3]>>],
     ws |-> With(With(ws, "shapeStrength", 0), "turbulence", Scale \div 20),
     projector |-> "flareProjector", nFn |-> "generalNoise"]

\* the branch the loop takes for the particle, by its type
SunnyBranch(q, ws, draws) ==
    CASE q.type = TYPE_CORE -> CoreBranch(q, ws, draws)
      [] q.type = TYPE_WEDGE -> WedgeBranch(q, ws, draws)
      [] q.type = TYPE_PHOTON -> PhotonBranch(q, ws, draws)
      [] q.type = TYPE_FLARE -> FlareBranch(q, ws, draws)

\* one iteration of the particle loop: the particle and ws after it
SunnyParticle(q, ws, dt, time, draws) ==
    LET b == SunnyBranch(q, ws, draws)
    IN [p |-> updateParticle(b.p, dt, b.ws, b.projector, b.nFn, time),
        ws |-> b.ws]

\* the ws each particle is passed to updateParticle with, by index, when the
\* loop runs from index i on with ws
RECURSIVE SunnyUsed(_, _, _, _)
SunnyUsed(particles, i, ws, draws) ==
    IF i > Len(particles) THEN <<>>
    ELSE LET b == SunnyBranch(particles[i], ws, draws)
         IN <<b.ws>> \o SunnyUsed(particles, i + 1, b.ws, draws)

\* the particle loop, visiting the indices of the pool in the given order
RECURSIVE SunnyLoop(_, _, _, _, _, _)
SunnyLoop(particles, order, ws, dt, time, draws) ==
    IF Len(order) = 0 THEN particles
    ELSE LET i == order[1]
             r == SunnyParticle(particles[i], ws, dt, time, draws)
         IN SunnyLoop([particles EXCEPT ![i] = r.p],
                      [k \in 1..(Len(order) - 1) |-> order[k + 1]],
                      r.ws, dt, time, draws)

\* for (let i = 0; i < count; i++)
IndexOrder(n) == [k \in 1..n |-> k]

\* normalized inputs of the sunny scene
SunnyInputs ==
    { [uvIndex |-> Scale, temperature |-> Scale \div 2],
      [uvIndex |-> 0, temperature |-> Scale],
      [temperature |-> Scale \div 2] }

\* what Math.random() gives the respawns of a frame, as positions
RespawnDraws ==
    { [core |-> <<Scale, 0, Scale \div 2>>, wedge |-> <<10 * Scale, 0, Scale>>,
       photon |-> <<0, 20 * Scale, -2 * Scale>>],
      [core |-> <<0, -2 * Scale, 0>>, wedge |-> <<-6 * Scale, 15 * Scale, -Scale>>,
       photon |-> <<5 * Scale, 5 * Scale, Scale>>] }

SceneTimes == {0, 3 * Scale}

\* pools as createWeatherScene builds them: cores, wedges, photons, flares,
\* at rest, with a life in [0, 1)
SunnyPools ==
    { << [type |-> TYPE_CORE, position |-> <<Scale, 0, Scale \div 2>>,
          velocity |-> Zero3, life |-> Scale \div 2],
         [type |-> TYPE_WEDGE, position |-> <<10 * Scale, 0, Scale>>,
          velocity |-> Zero3, life |-> 0],
         [type |-> TYPE_PHOTON, position |-> <<0, 20 * Scale, -2 * Scale>>,
          velocity |-> Zero3, life |-> (3 * Scale) \div 10],
         [type |-> TYPE_FLARE, position |-> <<19 * Scale, -5 * Scale, 10 * Scale>>,
          velocity |-> Zero3, life |-> (4 * Scale) \div 5] >>,
      << [type |-> TYPE_CORE, position |-> <<0, -Scale, 0>>,
          velocity |-> Zero3, life |-> Scale \div 10],
         [type |-> TYPE_WEDGE, position |-> <<-6 * Scale, 15 * Scale, -Scale>>,
          velocity |-> Zero3, life |-> (9 * Scale) \div 10],
         [type |-> TYPE_WEDGE, position |-> <<20 * Scale, 20 * Scale, 0>>,
          velocity |-> Zero3, life |-> Scale \div 2],
         [type |-> TYPE_PHOTON, position |-> <<5 * Scale, 5 * Scale, Scale>>,
          velocity |-> Zero3, life |-> Scale \div 5] >> }

InitSunny ==
    /\ pool \in SunnyPools
    /\ \E normalizedInputs \in SunnyInputs :
         frame = [kind |-> "sunny", inputs |-> normalizedInputs, dt |-> 0, time |-> 0,
                  draws |-> CHOOSE d \in RespawnDraws : TRUE, before |-> pool,
                  used |-> <<>>]
    /\ p = [life |-> 0]
    /\ call = NoCall
    /\ steps = 0
    /\ InitHeapIdle

\* update(dt, time, normalizedInputs) of the sunny scene
SunnyUpdate ==
    /\ steps < MaxFrames
    /\ \E dt \in DtValues, time \in SceneTimes, draws \in RespawnDraws :
         /\ pool' = SunnyLoop(pool, IndexOrder(Len(pool)),
                              SunnyWs(frame.inputs, time), dt, time, draws)
         /\ frame' = [frame EXCEPT !.dt = dt, !.time = time, !.draws = draws,
                                   !.before = pool,
                                   !.used = SunnyUsed(pool, 1, SunnyWs(frame.inputs, time),
                                                      draws)]
    /\ steps' = steps + 1
    /\ UNCHANGED <<p, call, heapVars>>

NextSunny == SunnyUpdate

SpecSunny == InitSunny /\ [][NextSunny]_vars

-----------------------------------------------------------------------------
(* The rain specification: one particle of the rain scene's pool through    *)
(* the frames of update(dt, time, normalizedInputs): respawn, then the rain, *)
(* sparkle or puddle branch.                                                 *)

\* frames of a behaviour of the rain scene
MaxRainFrames == 2

\* normalizedInputs.precipitation ?? 0.0
Precip(normalizedInputs) ==
    IF Has(normalizedInputs, "precipitation") THEN normalizedInputs.precipitation ELSE 0

\* const puddleState = { ...weatherState, verticalBias: 0.05, shapeStrength: 5.0 }
puddleState(weatherState) ==
    Override(weatherState, [verticalBias |-> Scale \div 20, shapeStrength |-> 5 * Scale])

\* const rainState = { ...weatherState } with the overrides of either branch
\* of precip < 0.1
rainState(weatherState, precip) ==
    IF precip < Scale \div 10
    THEN Override(weatherState,
                  [verticalBias |-> 2 * Scale,
                   flowDirection |-> <<Scale \div 2, 0, Scale \div 5>>,
                   flowSpeed |-> Scale])
    ELSE LET t == fratio(precip - Scale \div 10, Scale, (9 * Scale) \div 10)
         IN Override(weatherState,
                     [verticalBias |-> 2 * Scale + fmul(43 * Scale, t),
                      shapeStrength |-> Scale \div 2,
                      flowSpeed |-> 0])

\* PUDDLES: centres on the ground plane and radii
PUDDLES ==
    { [x |-> 0, z |-> 0, r |-> 7 * Scale],
      [x |-> -8 * Scale, z |-> 5 * Scale, r |-> 5 * Scale],
      [x |-> 6 * Scale, z |-> -5 * Scale, r |-> (11 * Scale) \div 2],
      [x |-> 7 * Scale, z |-> 7 * Scale, r |-> (9 * Scale) \div 2],
      [x |-> -10 * Scale, z |-> -8 * Scale, r |-> (26 * Scale) \div 5],
      [x |-> 12 * Scale, z |-> 3 * Scale, r |-> (24 * Scale) \div 5] }

\* let dead = p.life <= 0, or the particle is out of bounds { x: 30, y: 30, z: 30 }
Dead(q) ==
    \/ q.life <= 0
    \/ q.position[1] > 30 * Scale \/ q.position[1] < -(30 * Scale)
    \/ q.position[3] > 30 * Scale \/ q.position[3] < -(30 * Scale)
    \/ q.position[2] < -(10 * Scale)
    \/ q.position[2] > 40 * Scale

\* the share of respawns that come back as rain, capped at 0.7
rainProb(precip) ==
    IF precip > Scale \div 20
    THEN MathMin((7 * Scale) \div 10,
                 MathMax(0, fratio(precip - Scale \div 20, Scale, (7 * Scale) \div 10)))
    ELSE 0

\* the respawn of a dead particle, into a puddle or as rain from the sky;
\* draws holds what Math.random() gives: the choice and the two positions
RainRespawn(q, precip, rs, draws) ==
    IF draws.choice > rainProb(precip)
    THEN [q EXCEPT !.position = draws.puddle, !.velocity = Zero3,
                   !.isRain = FALSE, !.life = Scale]
    ELSE [q EXCEPT !.position = draws.sky,
                   !.velocity = <<0, fneg(rs.verticalBias), 0>>,
                   !.isRain = TRUE, !.life = Scale]

\* which way the respawn of the frame went: "none", "puddle" or "rain"
RespawnKind(q, precip, draws) ==
    IF ~Dead(q) THEN "none"
    ELSE IF draws.choice > rainProb(precip) THEN "puddle" ELSE "rain"

\* the rain particle is at the ground, inside or near a puddle
HitsPuddle(q) ==
    /\ q.position[2] <= Scale \div 5
    /\ q.position[2] >= -(Scale \div 2)
    /\ \E pud \in PUDDLES :
         LET dx == q.position[1] - pud.x
             dz == q.position[3] - pud.z
             reach == (6 * pud.r) \div 5
         IN dx * dx + dz * dz < reach * reach

\* a landed rain particle turns into a puddle particle, one in ten into a
\* sparkle that jumps out
Landing(q, draws) ==
    LET q1 == [q EXCEPT !.isRain = FALSE, !.velocity = Zero3,
                        !.position = <<q.position[1], Scale \div 10, q.position[3]>>]
    IN IF draws.sparkle < Scale \div 10
       THEN [q1 EXCEPT !.isSparkle = TRUE, !.velocity = draws.jump, !.life = Scale \div 2]
       ELSE [q1 EXCEPT !.isSparkle = FALSE, !.life = Scale + draws.extraLife]

\* the sparkle branch: free flight under gravity 9.8, life decays by dt
SparkleStep(q, dt) ==
    [q EXCEPT !.position = add(q.position, mulScalar(q.velocity, dt)),
              !.velocity = <<q.velocity[1],
                             q.velocity[2] - fmul((98 * Scale) \div 10, dt),
                             q.velocity[3]>>,
              !.life = q.life - dt]

\* the branch of the loop body that advances the particle
RainBranch(q) ==
    IF q.isRain THEN "rain" ELSE IF q.isSparkle THEN "sparkle" ELSE "puddle"

\* the loop body for one particle: the particle after the frame
RainParticle(q, dt, time, normalizedInputs, draws) ==
    LET weatherState == RainMapped(normalizedInputs)
        precip == Precip(normalizedInputs)
        rs == rainState(weatherState, precip)
        q1 == IF Dead(q) THEN RainRespawn(q, precip, rs, draws) ELSE q
    IN CASE RainBranch(q1) = "rain" ->
              LET q2 == updateParticle(q1, dt, rs, "rainProjector", "wrappedNoiseFn", time)
              IN IF HitsPuddle(q2) THEN Landing(q2, draws) ELSE q2
         [] RainBranch(q1) = "sparkle" -> SparkleStep(q1, dt)
         [] RainBranch(q1) = "puddle" ->
              updateParticle(q1, dt, puddleState(weatherState), "puddleProjector",
                             "wrappedNoiseFn", time)

\* normalized inputs of the rain scene
RainInputs ==
    { [precipitation |-> 0, humidity |-> Scale \div 5],
      [precipitation |-> Scale \div 2, humidity |-> Scale \div 2],
      [precipitation |-> Scale, humidity |-> Scale] }

\* what Math.random() gives a frame
RainDraws ==
    { [choice |-> (9 * Scale) \div 10, puddle |-> <<Scale, Scale \div 5, -2 * Scale>>,
       sky |-> <<Scale, 20 * Scale, Scale>>, sparkle |-> Scale \div 20,
       jump |-> <<Scale \div 2, Scale, -(Scale \div 2)>>, extraLife |-> 0],
      [choice |-> Scale \div 5, puddle |-> <<-8 * Scale, Scale \div 10, 6 * Scale>>,
       sky |-> <<-15 * Scale, 30 * Scale, 2 * Scale>>, sparkle |-> Scale \div 2,
       jump |-> Zero3, extraLife |-> Scale \div 2] }

\* what Math.random() gives the projector
JitterDraws == {0, (9 * Scale) \div 10}

\* particles of the pool: as createWeatherScene builds them (at rest in the
\* volume, life in [0, 1), neither rain nor sparkle), and later in the run:
\* a rain drop over a puddle one frame above the ground, and a sparkle that
\* has just jumped out of a puddle
RainParticles ==
    { [position |-> <<3 * Scale, -4 * Scale, 2 * Scale>>, velocity |-> Zero3,
       life |-> 0, isRain |-> FALSE, isSparkle |-> FALSE],
      [position |-> <<-8 * Scale, Scale \div 5, 5 * Scale>>, velocity |-> Zero3,
       life |-> Scale \div 2, isRain |-> FALSE, isSparkle |-> FALSE],
      [position |-> <<Scale, Scale \div 2, Scale>>, velocity |-> <<0, -5 * Scale, 0>>,
       life |-> (9 * Scale) \div 10, isRain |-> TRUE, isSparkle |-> FALSE],
      [position |-> <<Scale, Scale \div 10, Scale>>,
       velocity |-> <<Scale \div 2, Scale, -(Scale \div 2)>>,
       life |-> Scale \div 2, isRain |-> FALSE, isSparkle |-> TRUE] }

InitRain ==
    /\ p \in RainParticles
    /\ \E normalizedInputs \in RainInputs, random \in JitterDraws :
         frame = [kind |-> "rain", inputs |-> normalizedInputs, dt |-> 0, time |-> 0,
                  jitter |-> random, before |-> p, respawn |-> "none", branch |-> "none",
                  respawned |-> p]
    /\ pool = <<>>
    /\ call = NoCall
    /\ steps = 0
    /\ InitHeapIdle

\* update(dt, time, normalizedInputs) of the rain scene, for the particle;
\* frame records how the loop body treated it
RainUpdate ==
    /\ steps < MaxRainFrames
    /\ \E dt \in DtValues, time \in SceneTimes, draws \in RainDraws,
          random \in JitterDraws :
         LET q == p
             normalizedInputs == frame.inputs
             precip == Precip(normalizedInputs)
             q1 == IF Dead(q)
                   THEN RainRespawn(q, precip,
                                    rainState(RainMapped(normalizedInputs), precip), draws)
                   ELSE q
         IN /\ frame' = [frame EXCEPT !.dt = dt, !.time = time,
                                      !.jitter = random, !.before = q,
                                      !.respawn = RespawnKind(q, precip, draws),
                                      !.branch = RainBranch(q1),
                                      !.respawned = q1]
            /\ p' = RainParticle(q, dt, time, normalizedInputs, draws)
    /\ steps' = steps + 1
    /\ UNCHANGED <<pool, call, heapVars>>

NextRain == RainUpdate

SpecRain == InitRain /\ [][NextRain]_vars

-----------------------------------------------------------------------------
(* The entry point: init of main.js fetches the weather, decides the mode   *)
(* and imports the mode's module; its rejection is caught by a handler that *)
(* imports cloudy.js.  frame holds the position of the run and what it did. *)

\* null, and any other value of weatherData as an object with its properties
Null == [null |-> TRUE]
Truthy(data) == ~Has(data, "null")

\* the alternative of a category regex that a lower-case word contains, or ""
Keyword(word) ==
    CASE word \in {"snow", "sleet", "blizzard"} -> "snow"
      [] word \in {"rain", "drizzle", "showers", "thundery"} -> "rain"
      [] word \in {"cloudy", "overcast", "fog", "mist"} -> "cloud"
      [] OTHER -> ""

\* String.prototype.toLowerCase on the words of the condition texts
toLowerCase(word) ==
    CASE word = "Sunny" -> "sunny"
      [] word = "Clear" -> "clear"
      [] word = "Partly" -> "partly"
      [] word = "Thundery" -> "thundery"
      [] word = "Light" -> "light"
      [] word = "Patchy" -> "patchy"
      [] word = "Windy" -> "windy"
      [] word = "Blizzard" -> "blizzard"
      [] OTHER -> word

\* `${(it.day || "").toLowerCase()} ${(it.night || "").toLowerCase()}`, as
\* the set of the keywords its words contain
Keywords(it) ==
    LET day == IF Has(it, "day") THEN it.day ELSE <<>>
        night == IF Has(it, "night") THEN it.night ELSE <<>>
        txt == day \o night
    IN { Keyword(toLowerCase(txt[k])) : k \in DOMAIN txt }

\* the category of one entry of the conditions list
CategoryOf(it) ==
    IF "snow" \in Keywords(it) THEN "SNOW"
    ELSE IF "rain" \in Keywords(it) THEN "RAIN"
    ELSE IF "cloud" \in Keywords(it) THEN "CLOUDY"
    ELSE IF it.code = 1000 THEN "SUNNY"
    ELSE IF it.code = 1087 THEN "WINDY"
    ELSE "CLOUDY"

\* buildCodeCategoryMap: the Map from code to category, a later entry of the
\* list replacing an earlier one with the same code
RECURSIVE buildCodeCategoryMap(_)
buildCodeCategoryMap(list) ==
    IF Len(list) = 0 THEN <<>>
    ELSE LET n == Len(list)
             map == buildCodeCategoryMap([k \in 1..(n - 1) |-> list[k]])
             code == list[n].code
         IN [c \in DOMAIN map \cup {code} |->
               IF c = code THEN CategoryOf(list[n]) ELSE map[c]]

\* data?.current?.condition?.code, with 0 for undefined
ConditionCode(data) ==
    IF Has(data, "current") /\ Has(data.current, "condition")
       /\ Has(data.current.condition, "code")
    THEN data.current.condition.code ELSE 0

\* classifyCategory after loadConditionsList gave list: the category
classifyCategory(data, list) ==
    LET codeMap == buildCodeCategoryMap(list)
        code == ConditionCode(data)
    IN IF code \in DOMAIN codeMap THEN codeMap[code] ELSE "CLOUDY"

\* the switch of decideModeFromWeather with a case 'WINDY' that returns 'windy'
ModeOfCategory_windy(category) ==
    CASE category = "SNOW" -> "snowy"
      [] category = "RAIN" -> "rainy"
      [] category = "SUNNY" -> "sunny"
      [] category = "WINDY" -> "windy"
      [] OTHER -> "cloudy"

\* the switch of decideModeFromWeather
ModeOfCategory(category) ==
    CASE category = "SNOW" -> "snowy"
      [] category = "RAIN" -> "rainy"
      [] category = "SUNNY" -> "sunny"
      [] category = "WINDY" -> "cloudy"
      [] OTHER -> "cloudy"

\* decideModeFromWeather without the guard on missing weather data
NeedsClassification_unguarded(weatherData) == TRUE

\* decideModeFromWeather calls classifyCategory unless !weatherData
NeedsClassification(weatherData) == Truthy(weatherData)

\* the file loadWeatherModule imports for the mode
ModuleOf(mode) ==
    CASE mode = "sunny" -> "sunny.js"
      [] mode = "rainy" -> "rainy.js"
      [] mode = "snowy" -> "snowy.js"
      [] OTHER -> "cloudy.js"

\* the property reads of init's log lines throw on this weather data
LogThrows(weatherData) ==
    /\ Truthy(weatherData)
    /\ \/ ~Has(weatherData, "location")
       \/ ~Has(weatherData, "current")
       \/ ~Has(weatherData.current, "condition")

\* what the weather API may answer
Conditions ==
    { [code |-> 1000, text |-> "Sunny"], [code |-> 1003, text |-> "Partly cloudy"],
      [code |-> 1087, text |-> "Thundery outbreaks possible"],
      [code |-> 1183, text |-> "Light rain"], [code |-> 1210, text |-> "Patchy light snow"],
      [code |-> 9999, text |-> "Unknown"], [text |-> "No code"] }

WeatherAnswers ==
    { [location |-> "New York", current |-> [condition |-> c]] : c \in Conditions }
    \cup { [error |-> "malformed"], [location |-> "New York", current |-> [temp_c |-> 20]] }

\* what conditions.json may hold
ConditionLists ==
    { << [code |-> 1000, day |-> <<"Sunny">>, night |-> <<"Clear">>],
         [code |-> 1003, day |-> <<"Partly", "cloudy">>, night |-> <<"Partly", "cloudy">>],
         [code |-> 1087, day |-> <<"Thundery", "outbreaks", "possible">>,
          night |-> <<"Thundery", "outbreaks", "possible">>],
         [code |-> 1183, day |-> <<"Light", "rain">>, night |-> <<"Light", "rain">>],
         [code |-> 1210, day |-> <<"Patchy", "light", "snow">>,
          night |-> <<"Patchy", "light", "snow">>] >>,
      << [code |-> 1000, day |-> <<"Sunny">>],
         [code |-> 1087, day |-> <<"Windy">>, night |-> <<"Windy">>],
         [code |-> 1210, day |-> <<"Blizzard">>, night |-> <<"Blizzard">>],
         [code |-> 1183, night |-> <<"drizzle">>] >>,
      <<>> }

\* how navigator.geolocation answers: absent, a position, or denied
Geolocations == {"absent", "position", "denied"}

InitRun ==
    [kind |-> "init", pc |-> "start", query |-> "", weatherData |-> Null,
     classifyCalled |-> FALSE, list |-> <<>>, category |-> "", decided |-> FALSE,
     mode |-> "",
     imports |-> <<>>, loaded |-> <<>>, caught |-> FALSE]

InitEntry ==
    /\ frame = InitRun
    /\ p = [life |-> 0]
    /\ pool = <<>>
    /\ call = NoCall
    /\ steps = 0
    /\ InitHeapIdle

\* const weatherData = await fetchWeather(): the query from geolocation or
\* "auto:ip", then the answer of fetchRealtimeWeather, or null when it throws
FetchWeather ==
    /\ frame.kind = "init" /\ frame.pc = "start"
    /\ \E geo \in Geolocations, answer \in WeatherAnswers \cup {Null} :
         frame' = [frame EXCEPT !.query = IF geo = "position" THEN "lat,lon" ELSE "auto:ip",
                                !.weatherData = answer,
                                !.pc = "fetched"]
    /\ UNCHANGED <<particleVars, heapVars, pool>>

\* init after the fetch: the log lines, then decideModeFromWeather up to its
\* first await: 'cloudy' at once without weather data, else classifyCategory
\* is called
DecideStart ==
    /\ frame.kind = "init" /\ frame.pc = "fetched"
    /\ frame' =
         IF LogThrows(frame.weatherData) THEN [frame EXCEPT !.pc = "rejected"]
         ELSE IF NeedsClassification(frame.weatherData)
         THEN [frame EXCEPT !.classifyCalled = TRUE, !.pc = "classifying"]
         ELSE [frame EXCEPT !.mode = "cloudy", !.decided = TRUE, !.pc = "decided"]
    /\ UNCHANGED <<particleVars, heapVars, pool>>

\* classifyCategory settles: loadConditionsList gave a list and the switch
\* picks the mode, or it threw and the catch returns 'cloudy'
Classified ==
    /\ frame.kind = "init" /\ frame.pc = "classifying"
    /\ \E outcome \in {"list", "error"}, list \in ConditionLists :
         frame' = IF outcome = "error"
                  THEN [frame EXCEPT !.mode = "cloudy", !.decided = TRUE, !.pc = "decided"]
                  ELSE [frame EXCEPT
                          !.list = list,
                          !.category = classifyCategory(frame.weatherData, list),
                          !.mode = ModeOfCategory(classifyCategory(frame.weatherData, list)),
                          !.decided = TRUE, !.pc = "decided"]
    /\ UNCHANGED <<particleVars, heapVars, pool>>

\* await loadWeatherModule(mode): the import of the mode's file starts
LoadWeatherModule ==
    /\ frame.kind = "init" /\ frame.pc = "decided"
    /\ frame' = [frame EXCEPT !.imports = Append(frame.imports, ModuleOf(frame.mode)),
                              !.pc = "importing"]
    /\ UNCHANGED <<particleVars, heapVars, pool>>

\* the import settles: the module runs and init is done, or the import fails
\* and init rejects
ImportSettles ==
    /\ frame.kind = "init" /\ frame.pc = "importing"
    /\ \E ok \in BOOLEAN :
         frame' = IF ok
                  THEN [frame EXCEPT !.loaded = Append(frame.loaded, ModuleOf(frame.mode)),
                                     !.pc = "done"]
                  ELSE [frame EXCEPT !.pc = "rejected"]
    /\ UNCHANGED <<particleVars, heapVars, pool>>

\* init().catch(...): the handler starts the import of cloudy.js
CatchFallback ==
    /\ frame.kind = "init" /\ frame.pc = "rejected"
    /\ frame' = [frame EXCEPT !.imports = Append(frame.imports, "cloudy.js"),
                              !.caught = TRUE, !.pc = "fallback"]
    /\ UNCHANGED <<particleVars, heapVars, pool>>

\* the fallback import settles; its failure is logged
FallbackSettles ==
    /\ frame.kind = "init" /\ frame.pc = "fallback"
    /\ \E ok \in BOOLEAN :
         frame' = IF ok
                  THEN [frame EXCEPT !.loaded = Append(frame.loaded, "cloudy.js"),
                                     !.pc = "fallbackDone"]
                  ELSE [frame EXCEPT !.pc = "fallbackFailed"]
    /\ UNCHANGED <<particleVars, heapVars, pool>>

NextEntry ==
    \/ FetchWeather
    \/ DecideStart
    \/ Classified
    \/ LoadWeatherModule
    \/ ImportSettles
    \/ CatchFallback
    \/ FallbackSettles

SpecEntry == InitEntry /\ [][NextEntry]_vars

\* the event loop runs every continuation that is due
SpecEntryFair == SpecEntry /\ WF_vars(NextEntry)

-----------------------------------------------------------------------------
(* Claims about createDefaultWeatherState and applyMapping *)

IsApply == lastOp.op = "applyMapping"

\* the state the last call returned, and the baseline it was given as it
\* was before the call (the documented defaults when none was passed)
Result == View(Heap, lastOp.result)
BaseBefore ==
    IF lastOp.base # Undefined THEN View(lastOp.before, lastOp.base) ELSE DefaultState

ConfigKeys(mappingConfig) == {mappingConfig[i].key : i \in DOMAIN mappingConfig}

\* some write made through o1, to a scalar field or to a component of its
\* flowDirection, changes what is read through o2
Observable(H, o1, o2) ==
    \/ \E k \in DOMAIN H.objs[o1] \ {"flowDirection"} :
         View(WriteField(H, o1, k, H.objs[o1][k] + 1), o2) # View(H, o2)
    \/ \E i \in 1..3 :
         View(WriteComponent(H, o1, i, H.vecs[H.objs[o1].flowDirection][i] + 1), o2)
            # View(H, o2)

\* C2: applyMapping never mutates the baseline it is given: every field of
\* the baseline has the value it had before the call, and the call returns
\* a new object, distinct from the baseline
C2_BaselineUntouched ==
    IsApply =>
        /\ lastOp.result \notin DOMAIN lastOp.before.objs
        /\ lastOp.base # Undefined =>
             /\ lastOp.result # lastOp.base
             /\ objs[lastOp.base] = lastOp.before.objs[lastOp.base]
             /\ View(Heap, lastOp.base) = View(lastOp.before, lastOp.base)

\* a call that overrode a field of its result and left the baseline as it was
C2_Witness ==
    /\ IsApply
    /\ lastOp.base # Undefined
    /\ Result # View(Heap, lastOp.base)

\* o1 and o2 are states obtained from the same baseline by applyMapping, or
\* one is the baseline of the other
SameBaseline(o1, o2) ==
    /\ origin[o1].by = "applyMapping"
    /\ origin[o1].base # Undefined
    /\ \/ origin[o1].base = o2
       \/ origin[o2].by = "applyMapping" /\ origin[o2].base = origin[o1].base

\* C3: states produced by applyMapping are independent snapshots: for two
\* states obtained from the same baseline, and for the baseline itself, no
\* write made through one of them, to a scalar field or to a component of
\* its flowDirection vector, is observable through another
C3_IndependentSnapshots ==
    \A o1, o2 \in DOMAIN objs :
        (o1 # o2 /\ SameBaseline(o1, o2)) =>
            ~Observable(Heap, o1, o2) /\ ~Observable(Heap, o2, o1)

\* min + (max - min) * clamp01(t), by cases on t
Interpolated(cfg, t) ==
    IF t <= 0 THEN cfg.min
    ELSE IF t >= Scale THEN cfg.max
    ELSE cfg.min + TruncDiv((cfg.max - cfg.min) * t, Scale)

Between(x, a, b) == (a <= x /\ x <= b) \/ (b <= x /\ x <= a)

\* C4: for every rule {from, min, max} whose input is defined the field is
\* min + (max - min) * clamp01(input): input 2.0 with min 0, max 10 gives 10,
\* input -1.0 gives 0, and the output lies between min and max in either order
C4_ClampedInterpolation ==
    IsApply =>
        \A i \in DOMAIN lastOp.config :
            LET key == lastOp.config[i].key
                cfg == lastOp.config[i].cfg
            IN InputDefined(lastOp.inputs, cfg) =>
                 LET t == lastOp.inputs[cfg.from]
                 IN /\ Result[key] = Interpolated(cfg, t)
                    /\ Between(Result[key], cfg.min, cfg.max)
                    /\ (cfg.min = 0 /\ cfg.max = 10 * Scale /\ t = 2 * Scale)
                          => Result[key] = 10 * Scale
                    /\ (cfg.min = 0 /\ cfg.max = 10 * Scale /\ t = -Scale)
                          => Result[key] = 0

\* inputs above 1 and below 0 were clamped, and an inverted rule applied
C4_Witness ==
    /\ IsApply
    /\ lastOp.config = RainyMapping
    /\ lastOp.inputs = [precipitation |-> 2 * Scale, humidity |-> -Scale]
    /\ Result.verticalBias = 10 * Scale
    /\ Result.brightness = 0
    /\ Result.shapeStrength = Scale \div 2

\* C5: when the input named by a rule is absent from the snapshot the field
\* stays at its baseline value, and the other rules are still applied
C5_MissingInputSkipped ==
    IsApply =>
        \A i \in DOMAIN lastOp.config :
            LET key == lastOp.config[i].key
                cfg == lastOp.config[i].cfg
            IN IF InputDefined(lastOp.inputs, cfg)
               THEN Has(Result, key)
                    /\ Result[key] = Interpolated(cfg, lastOp.inputs[cfg.from])
               ELSE /\ Has(Result, key) <=> Has(BaseBefore, key)
                    /\ Has(Result, key) => Result[key] = BaseBefore[key]

\* a rule with a missing input came before a rule that changed its field
C5_Witness ==
    /\ IsApply
    /\ \E i, j \in DOMAIN lastOp.config :
         /\ i < j
         /\ ~InputDefined(lastOp.inputs, lastOp.config[i].cfg)
         /\ Has(BaseBefore, lastOp.config[i].key)
         /\ InputDefined(lastOp.inputs, lastOp.config[j].cfg)
         /\ Has(BaseBefore, lastOp.config[j].key)
         /\ Result[lastOp.config[j].key] # BaseBefore[lastOp.config[j].key]

\* C6: every field of the result that is not a key of the config has the
\* baseline's value, or the documented default when no baseline is passed
C6_OnlyConfigFields ==
    IsApply =>
        /\ \A k \in DOMAIN Result \ ConfigKeys(lastOp.config) :
              Has(BaseBefore, k) /\ Result[k] = BaseBefore[k]
        /\ \A k \in DOMAIN BaseBefore : Has(Result, k)

\* a call with rules on a baseline that differs from the defaults in a field
\* the config does not name
C6_Witness ==
    /\ IsApply
    /\ lastOp.base # Undefined
    /\ lastOp.config = RainyMapping
    /\ BaseBefore.lifeSpan = 5 * Scale
    /\ Result.lifeSpan = 5 * Scale
    /\ Result.verticalBias # BaseBefore.verticalBias

\* C7: applyMapping(inputs, {}, state) returns a state equal field by field
\* to state
C7_EmptyConfigNoOp ==
    (IsApply /\ lastOp.config = <<>> /\ lastOp.base # Undefined) =>
        Result = BaseBefore

\* an empty config applied to a state that is not the default state
C7_Witness ==
    /\ IsApply
    /\ lastOp.config = <<>>
    /\ lastOp.base # Undefined
    /\ BaseBefore # DefaultState
    /\ Result = BaseBefore

\* the config iterated in the order f
Permuted(mappingConfig, f) == [i \in 1..Len(mappingConfig) |-> mappingConfig[f[i]]]

\* C8: any permutation of the rules of the config, applied to the same
\* inputs and baseline, yields the same state
C8_OrderIndependent ==
    IsApply =>
        \A f \in Permutations(1..Len(lastOp.config)) :
            LET r == applyMapping(lastOp.before, lastOp.inputs,
                                  Permuted(lastOp.config, f), lastOp.base)
            IN View(r, r.ws) = Result

\* a config of three rules of which two changed their field and one was skipped
C8_Witness ==
    /\ IsApply
    /\ Len(lastOp.config) = 3
    /\ Cardinality({i \in DOMAIN lastOp.config :
                      InputDefined(lastOp.inputs, lastOp.config[i].cfg)}) = 2
    /\ Cardinality({k \in DOMAIN BaseBefore : Result[k] # BaseBefore[k]}) = 2

IsDefaultCreated(o) == origin[o].by = "createDefaultWeatherState"

\* C9: createDefaultWeatherState returns on every call a new container with
\* the literal defaults, and writes to one returned state, including to its
\* flowDirection vector, never show up in a state returned by another call
C9_FreshDefaults ==
    /\ lastOp.op = "createDefaultWeatherState" =>
         /\ lastOp.result \notin DOMAIN lastOp.before.objs
         /\ Result.deformFactor = 0
         /\ Result.shapeStrength = Scale
         /\ Result.flowDirection = <<0, 0, 0>>
         /\ Result.flowSpeed = 0
         /\ Result.turbulence = 0
         /\ Result.noiseScaleLarge = Scale
         /\ Result.noiseScaleSmall = Scale
         /\ Result.verticalBias = 0
         /\ Result.lifeSpan = Scale
    /\ \A o1, o2 \in DOMAIN objs :
         (o1 # o2 /\ IsDefaultCreated(o1) /\ IsDefaultCreated(o2)) =>
             ~Observable(Heap, o1, o2)

\* two states from two calls, one of them written to, the other still default
C9_Witness ==
    \E o1, o2 \in DOMAIN objs :
        /\ o1 # o2
        /\ IsDefaultCreated(o1)
        /\ IsDefaultCreated(o2)
        /\ View(Heap, o1).lifeSpan = 5 * Scale
        /\ View(Heap, o2) = DefaultState

\* the rule has no `from`, or its `from` names no key of the inputs
RuleSkipped(normalizedInputs, rule) ==
    \/ "from" \notin DOMAIN rule.cfg
    \/ rule.cfg.from \notin DOMAIN normalizedInputs

\* C30: a rule without `from`, or whose `from` names a key the inputs lack,
\* is skipped: applyMapping with a config made only of such rules returns a
\* state equal to the baseline, with no field added
C30_RulesWithoutFrom ==
    (/\ IsApply
     /\ Len(lastOp.config) > 0
     /\ \A i \in DOMAIN lastOp.config : RuleSkipped(lastOp.inputs, lastOp.config[i]))
    => /\ Result = BaseBefore
       /\ DOMAIN Result = DOMAIN BaseBefore

\* the config written with `to` applied to a state that is not the default
\* state: nothing is written, no field named after a rule is added
C30_Witness ==
    /\ IsApply
    /\ lastOp.config = StarMapping
    /\ lastOp.base # Undefined
    /\ BaseBefore # DefaultState
    /\ Result = BaseBefore
    /\ ~Has(Result, "cloudCover")

-----------------------------------------------------------------------------
(* Claims about updateParticle *)

IsUpdate == call.kind = "updateParticle"

\* C1: after any single updateParticle call with finite inputs the stored
\* velocity has length <= 5.0, whatever the velocity before the call and
\* whatever the force magnitudes of the weather state
C1_SpeedClamp ==
    IsUpdate =>
        /\ ~HasNaN(p.velocity)
        /\ SumSq(p.velocity) <= maxSpeed * maxSpeed

\* a call on a respawned particle whose velocity was longer than 5, which
\* the call brought down to exactly 5
C1_Witness ==
    /\ IsUpdate
    /\ call.q0.isRain
    /\ SumSq(call.q0.velocity) > maxSpeed * maxSpeed
    /\ SumSq(p.velocity) = maxSpeed * maxSpeed

VerticalOnlyState == Override(DefaultState, [verticalBias |-> 10 * Scale])

\* the end-to-end scenario: at the origin, at rest, verticalBias = 10 and
\* every other contribution zero, dt = 0.1
C10_Scenario ==
    /\ IsUpdate
    /\ call.q0.position = Zero3
    /\ call.q0.velocity = Zero3
    /\ call.weatherState = VerticalOnlyState
    /\ v_shape(call.q0, call.weatherState, call.proj) = Zero3
    /\ call.dt = Scale \div 10

\* C10: one updateParticle call integrates the position with the new
\* (smoothed, clamped) velocity, and in the end-to-end scenario ends with
\* velocity [0, -2, 0] and position [0, -0.2, 0]
C10_EndToEnd ==
    /\ IsUpdate => p.position = add(call.q0.position, mulScalar(p.velocity, call.dt))
    /\ C10_Scenario =>
         /\ p.velocity = <<0, -(2 * Scale), 0>>
         /\ p.position = <<0, -(Scale \div 5), 0>>

C10_Witness ==
    /\ C10_Scenario
    /\ p.velocity = <<0, -(2 * Scale), 0>>
    /\ p.position # call.q0.position

-----------------------------------------------------------------------------
(* Claims about one updateParticle call *)

IsCall == call.kind = "call"

\* the particle the call works on, after the fallback initialisation
CallParticle == Fallback(call.q0)

\* shapeStrength * (1 - clamp01(deformFactor)), by the cases of the clamp
ShapeWeight(weatherState) ==
    IF weatherState.deformFactor >= Scale THEN 0
    ELSE IF weatherState.deformFactor <= 0 THEN weatherState.shapeStrength
    ELSE fmul(weatherState.shapeStrength, Scale - weatherState.deformFactor)

\* normalize(projector(pos) - pos), the zero vector when there is no projector
ShapeDirection(q, proj) ==
    IF proj = "none" THEN Zero3
    ELSE normalizeSafe(sub(projectToShape(proj, q.position), q.position))

\* C11: the shape contribution is normalize(projector(pos) - pos) times
\* shapeStrength * (1 - clamp01(deformFactor)); with deformFactor >= 1 it is
\* exactly the zero vector for every shapeStrength and every projector, and
\* the call ends as it would with shapeStrength 0
C11_ShapeContribution ==
    (/\ IsCall
     /\ Has(call.weatherState, "shapeStrength")
     /\ Has(call.weatherState, "deformFactor"))
    => /\ call.shape = mulScalar(ShapeDirection(CallParticle, call.proj),
                                 ShapeWeight(call.weatherState))
       /\ call.weatherState.deformFactor >= Scale =>
            /\ call.shape = Zero3
            /\ p = updateParticle(call.q0, call.dt,
                                  With(call.weatherState, "shapeStrength", 0),
                                  call.proj, call.noise, call.time)

\* a call with deformFactor 2.0, shapeStrength 5.0 and a projector that moves
\* the position: the shape contribution is zero
C11_Witness ==
    /\ IsCall
    /\ Has(call.weatherState, "deformFactor")
    /\ call.weatherState.deformFactor = 2 * Scale
    /\ call.weatherState.shapeStrength = 5 * Scale
    /\ call.proj = "shift"
    /\ call.shape = Zero3

\* dt / max(lifeSpan, 0.0001), by the cases of the maximum
ExpectedDecrement(dt, lifeSpan) ==
    IF lifeSpan > 0 THEN TruncDiv(dt * Scale, lifeSpan) ELSE dt * InvLifeSpanFloor

\* C12: a call decreases life by dt / max(lifeSpan, 0.0001): life 1.0 with
\* lifeSpan 2.0 and dt 1.0 becomes 0.5, and a lifeSpan of zero or below
\* takes dt / 0.0001 off
C12_LifeDecrement ==
    (IsCall /\ Has(call.weatherState, "lifeSpan"))
    => /\ p.life = CallParticle.life
                     - ExpectedDecrement(call.dt, call.weatherState.lifeSpan)
       /\ (/\ CallParticle.life = Scale
           /\ call.weatherState.lifeSpan = 2 * Scale
           /\ call.dt = Scale) => p.life = Scale \div 2
       /\ call.weatherState.lifeSpan <= 0 =>
            p.life = CallParticle.life - call.dt * InvLifeSpanFloor

\* a call with a negative lifeSpan: dt 1.0 takes 10000.0 off a life of 1.0
C12_Witness ==
    /\ IsCall
    /\ Has(call.weatherState, "lifeSpan")
    /\ call.weatherState.lifeSpan = -Scale
    /\ call.dt = Scale
    /\ CallParticle.life = Scale
    /\ p.life = Scale - InvLifeSpanFloor * Scale

\* every optional numeric field is present
Complete(weatherState) == OptionalFields \subseteq DOMAIN weatherState

\* position, velocity and life of the particle are finite numbers
FiniteParticle(q) ==
    /\ ~HasNaN(q.position)
    /\ ~HasNaN(q.velocity)
    /\ ~IsNaN(q.life)

\* C15: a call with a weather state that lacks an optional numeric field
\* ends as the call with that field at its default does, with finite
\* position, velocity and life
C15_MissingFieldDefaulted ==
    (IsCall /\ ~Complete(call.weatherState))
    => /\ p = updateParticle(call.q0, call.dt,
                             Override(DefaultState, call.weatherState),
                             call.proj, call.noise, call.time)
       /\ FiniteParticle(p)

\* the i-th sample the call took from the noise field ([0,0,0] without one)
NoiseSample(i) ==
    IF call.noise = "none" THEN Zero3
    ELSE noiseFn(call.noise, call.noiseCalls[i].pos, call.noiseCalls[i].t)

\* C16: zero-length directions give zero contributions, not NaN: when the
\* projector returns the position, when a noise sample is the zero vector
\* or when flowDirection is the zero vector, that contribution is exactly
\* [0,0,0] and the call ends with finite position and velocity
C16_ZeroDirections ==
    (IsCall /\ Complete(call.weatherState))
    => LET still == call.proj = "none"
                    \/ projectToShape(call.proj, CallParticle.position)
                         = CallParticle.position
           calm == ~Has(call.weatherState, "flowDirection")
                   \/ call.weatherState.flowDirection = Zero3
       IN /\ still => call.shape = Zero3
          /\ NoiseSample(1) = Zero3 => call.large = Zero3
          /\ NoiseSample(2) = Zero3 => call.small = Zero3
          /\ calm => call.direction = Zero3
          /\ (still \/ NoiseSample(1) = Zero3 \/ NoiseSample(2) = Zero3 \/ calm)
               => ~HasNaN(p.position) /\ ~HasNaN(p.velocity)

\* strong shape pull, turbulence and flow, all on zero-length directions:
\* the velocity only decays
C16_Witness ==
    /\ IsCall
    /\ call.weatherState = DegenerateState
    /\ call.proj = "identity"
    /\ call.noise = "zero"
    /\ call.q0 = [position |-> Zero3, velocity |-> <<3 * Scale, 4 * Scale, 0>>,
                  life |-> Scale, isRain |-> FALSE]
    /\ call.shape = Zero3 /\ call.large = Zero3
    /\ call.small = Zero3 /\ call.direction = Zero3
    /\ p.velocity = <<(12 * Scale) \div 5, (16 * Scale) \div 5, 0>>

\* C17: without flowDirection (flowSpeed present) the directional-flow
\* contribution is zero and the call ends as with flowDirection = [0,0,0]
C17_NoFlowDirection ==
    (/\ IsCall
     /\ ~Has(call.weatherState, "flowDirection")
     /\ Has(call.weatherState, "flowSpeed"))
    => /\ call.direction = Zero3
       /\ p = updateParticle(call.q0, call.dt,
                             With(call.weatherState, "flowDirection", Zero3),
                             call.proj, call.noise, call.time)

\* a call without flowDirection at flowSpeed 16.0
C17_Witness ==
    /\ IsCall
    /\ ~Has(call.weatherState, "flowDirection")
    /\ Has(call.weatherState, "flowSpeed")
    /\ call.weatherState.flowSpeed = 16 * Scale
    /\ call.direction = Zero3
    /\ FiniteParticle(p)

\* the record with [0,0,0], [0,0,0] and 1.0 for what it lacks
Initialised(q) ==
    [x \in DOMAIN q \cup {"position", "velocity", "life"} |->
       IF x \in DOMAIN q THEN q[x]
       ELSE IF x = "life" THEN Scale ELSE Zero3]

\* C18: a particle record without position, velocity or life is given
\* [0,0,0], [0,0,0] and 1.0 and then updated like an initialised particle:
\* a record without life ends with life = 1.0 - dt / max(lifeSpan, 0.0001)
C18_FallbackInit ==
    (/\ IsCall
     /\ {"position", "velocity", "life"} \ DOMAIN call.q0 # {}
     /\ Complete(call.weatherState))
    => /\ p = updateParticle(Initialised(call.q0), call.dt, call.weatherState,
                             call.proj, call.noise, call.time)
       /\ FiniteParticle(p)
       /\ ~Has(call.q0, "life") =>
            p.life = Scale - ExpectedDecrement(call.dt, call.weatherState.lifeSpan)
       /\ ~Has(call.q0, "position") =>
            p.position = mulScalar(p.velocity, call.dt)

\* a call on a record that has none of the three
C18_Witness ==
    /\ IsCall
    /\ call.q0 = [isRain |-> TRUE]
    /\ call.weatherState = GustState
    /\ call.dt = Scale
    /\ p.life = Scale \div 2
    /\ p.velocity # Zero3

\* the vector v has length len, up to the rounding of its three components
HasLength(v, len) ==
    LET tol == 2 + (2 * len) \div Scale
    IN /\ SumSq(v) <= (len + tol) * (len + tol)
       /\ len > tol => SumSq(v) >= (len - tol) * (len - tol)

\* C19: a call with a noise field samples it exactly twice, at the position
\* before the update: at position * noiseScaleLarge and time t for a
\* contribution of length turbulence, and at position * noiseScaleSmall and
\* time t + 100 for a contribution of length turbulence * 0.5 (non-zero
\* samples); a projector is called exactly once, on that position
C19_TwoNoiseSamples ==
    (IsCall /\ Complete(call.weatherState))
    => /\ call.noise # "none" =>
            /\ Len(call.noiseCalls) = 2
            /\ call.noiseCalls[1] =
                 [pos |-> mulScalar(CallParticle.position,
                                    call.weatherState.noiseScaleLarge),
                  t |-> TimeOr0(call.time)]
            /\ call.noiseCalls[2] =
                 [pos |-> mulScalar(CallParticle.position,
                                    call.weatherState.noiseScaleSmall),
                  t |-> TimeOr0(call.time) + smallTimeOffset]
            /\ NoiseSample(1) # Zero3 =>
                 HasLength(call.large, call.weatherState.turbulence)
            /\ NoiseSample(2) # Zero3 =>
                 HasLength(call.small, call.weatherState.turbulence \div 2)
       /\ call.proj # "none" => call.projCalls = <<CallParticle.position>>

\* a call in a snow storm (turbulence 6.0, noiseScaleSmall 4.0) with a wind
\* as noise field, on a particle away from the origin
C19_Witness ==
    /\ IsCall
    /\ Complete(call.weatherState)
    /\ call.noise = "wind"
    /\ call.weatherState.turbulence = 6 * Scale
    /\ call.weatherState.noiseScaleSmall = 4 * Scale
    /\ CallParticle.position = <<2 * Scale, 25 * Scale, -Scale>>
    /\ call.noiseCalls[2].pos = <<8 * Scale, 100 * Scale, -4 * Scale>>
    /\ call.noiseCalls[2].t = call.noiseCalls[1].t + smallTimeOffset
    /\ call.large = <<(18 * Scale) \div 5, 0, (24 * Scale) \div 5>>
    /\ call.small = <<(9 * Scale) \div 5, 0, (12 * Scale) \div 5>>
    /\ call.projCalls = <<CallParticle.position>>

FlowAndBiasOnly ==
    LET q == CallParticle
        target == add(call.direction, <<0, -call.weatherState.verticalBias, 0>>)
        v == clampLength(mixVec(q.velocity, target, smoothingFactor), 0, maxSpeed)
    IN /\ p.velocity = v
       /\ p.position = add(q.position, mulScalar(v, call.dt))
       /\ p.life = q.life - ExpectedDecrement(call.dt, call.weatherState.lifeSpan)

\* C29: a call without a projector has a zero shape contribution and a call
\* without a noise field has zero turbulence contributions, whatever
\* shapeStrength and turbulence are; the call still applies flow, vertical
\* bias, smoothing, clamp, integration and life decay
C29_NoProjectorNoNoise ==
    (IsCall /\ Complete(call.weatherState))
    => /\ call.proj = "none" => call.shape = Zero3
       /\ call.noise = "none" => call.large = Zero3 /\ call.small = Zero3
       /\ (call.proj = "none" \/ call.noise = "none") => FiniteParticle(p)
       /\ (call.proj = "none" /\ call.noise = "none") => FlowAndBiasOnly

\* a call without projector and noise field, away from the origin, in a
\* state with shape pull, turbulence, flow and vertical bias
C29_Witness ==
    /\ IsCall
    /\ call.proj = "none" /\ call.noise = "none"
    /\ call.weatherState = GustState
    /\ CallParticle.position = <<2 * Scale, 25 * Scale, -Scale>>
    /\ call.shape = Zero3 /\ call.large = Zero3 /\ call.small = Zero3
    /\ call.direction # Zero3
    /\ p.velocity # CallParticle.velocity
    /\ p.life < CallParticle.life

-----------------------------------------------------------------------------
(* Claims about sequences of updateParticle calls *)

\* C13: updateParticle never respawns or removes a particle: every call
\* with dt > 0 leaves life strictly below its value before the call, so a
\* life at or below zero stays at or below zero, and the record keeps its
\* properties
C13_NoRespawn ==
    (IsUpdate /\ call.dt > 0)
    => /\ p.life < call.q0.life
       /\ call.q0.life <= 0 => p.life <= 0
       /\ DOMAIN p = DOMAIN call.q0
       /\ p.isRain = call.q0.isRain

\* a call on a particle whose life had already run out
C13_Witness ==
    /\ IsUpdate
    /\ call.dt > 0
    /\ call.q0.life <= 0
    /\ p.life < call.q0.life

AbsVal(x) == IF x < 0 THEN -x ELSE x

\* the velocity before the call times 0.8 stays within the speed limit
WithinClamp(v) == 16 * SumSq(v) <= 25 * maxSpeed * maxSpeed

\* component x of the velocity is 0.8 times its value before, rounded toward zero
Damped(before, after) ==
    /\ 5 * AbsVal(after) <= 4 * AbsVal(before)
    /\ 5 * AbsVal(after) > 4 * AbsVal(before) - 5
    /\ after * before >= 0

\* one coasting call: the speed does not increase, within the speed limit
\* the velocity is multiplied by 0.8, a particle at rest stays where it is,
\* and the particle is within 5.0 * dt / 0.2 of where it started
CoastingCall ==
    IsUpdate =>
        /\ SumSq(p.velocity) <= SumSq(call.q0.velocity)
        /\ WithinClamp(call.q0.velocity) =>
             \A i \in 1..3 : Damped(call.q0.velocity[i], p.velocity[i])
        /\ call.q0.velocity = Zero3 =>
             /\ p.velocity = Zero3
             /\ p.position = call.q0.position
        /\ \A i \in 1..3 :
             AbsVal(p.position[i] - CoastStart[i]) * smoothingFactor
               <= maxSpeed * call.dt

\* C14: with the identity projector and zero turbulence, flowSpeed and
\* verticalBias the speed never increases from call to call and goes to zero
\* (times 0.8 per call within the speed limit), the total displacement is
\* bounded and the position comes to rest
C14_Coasting == [](CoastingCall) /\ <>[](p.velocity = Zero3)

\* a call on a particle that has come to rest away from where it started
C14_Witness ==
    /\ IsUpdate
    /\ frame.kind = "coast"
    /\ call.q0.velocity = Zero3
    /\ p.velocity = Zero3
    /\ p.position # CoastStart
    /\ p.position = call.q0.position

-----------------------------------------------------------------------------
(* Claims about a scene's per-frame update *)

IsSunnyFrame == frame.kind = "sunny" /\ steps > 0

\* the pool a frame leaves when its loop visits the particles in this order
FrameResult(order) ==
    SunnyLoop(frame.before, order, SunnyWs(frame.inputs, frame.time),
              frame.dt, frame.time, frame.draws)

\* C20: within one per-frame update the particle updates are independent:
\* visiting the pool in any other order leaves every particle with the same
\* position, velocity and life
C20_OrderIndependent ==
    IsSunnyFrame =>
        \A order \in Permutations(1..Len(pool)) : FrameResult(order) = pool

\* C26: in the sunny scene a wedge particle is updated with the turbulence
\* that applyMapping produced from the frame's inputs, whatever the core,
\* photon and flare branches wrote in the same frame
C26_WedgeTurbulence ==
    IsSunnyFrame =>
        \A i \in DOMAIN frame.before :
            frame.before[i].type = TYPE_WEDGE =>
                frame.used[i].turbulence = SunnyMapped(frame.inputs).turbulence

\* particle i was given life 1.0 in the frame, before updateParticle took
\* one decrement off
Recycled(i) ==
    pool[i].life = Scale - ExpectedDecrement(frame.dt, frame.used[i].lifeSpan)

\* C22: every particle that is dead (life <= 0) when a frame begins is
\* recycled by the scene in that frame, whatever its kind: its life is
\* reset, so no particle stays dead from one frame to the next
C22_DeadRecycled ==
    IsSunnyFrame =>
        \A i \in DOMAIN frame.before :
            frame.before[i].life <= 0 => Recycled(i)

IsRainFrame == frame.kind = "rain" /\ steps > 0

\* C27: in the rain scene a dead or out-of-bounds particle that is respawned
\* into a puddle (isRain = false) is advanced in that frame by updateParticle
\* with the puddle state, never by the sparkle branch
C27_PuddleRespawnAdvanced ==
    (IsRainFrame /\ frame.respawn = "puddle") => frame.branch = "puddle"

-----------------------------------------------------------------------------
(* Claims about the entry point *)

IsRun == frame.kind = "init"

\* C23: when fetchWeather yields null, classifyCategory is never called, the
\* decided mode is 'cloudy', and cloudy.js is the module whose import is
\* started, the only one in the run
C23_FetchFailureFallsBack ==
    (IsRun /\ frame.pc # "start" /\ ~Truthy(frame.weatherData)) =>
        /\ ~frame.classifyCalled
        /\ frame.pc # "fetched" => frame.decided /\ frame.mode = "cloudy"
        /\ frame.pc \notin {"fetched", "decided"} => Len(frame.imports) >= 1
        /\ \A k \in DOMAIN frame.imports : frame.imports[k] = "cloudy.js"

\* the fetch failed and the run ended with cloudy.js loaded
C23_Witness ==
    /\ IsRun /\ frame.pc = "done"
    /\ ~Truthy(frame.weatherData)
    /\ frame.loaded = <<"cloudy.js">>

Modes == {"snowy", "rainy", "sunny", "cloudy"}

\* C24: decideModeFromWeather never rejects and its result is one of the
\* four modes: SNOW gives snowy, RAIN rainy, SUNNY sunny; WINDY, CLOUDY, an
\* unknown category, a condition code absent from the code map and a
\* classification error give cloudy
C24_DecidedMode ==
    /\ (IsRun /\ frame.classifyCalled /\ frame.pc = "rejected") => frame.decided
    /\ (IsRun /\ frame.decided) =>
         /\ frame.mode \in Modes
         /\ frame.category = "SNOW" => frame.mode = "snowy"
         /\ frame.category = "RAIN" => frame.mode = "rainy"
         /\ frame.category = "SUNNY" => frame.mode = "sunny"
         /\ frame.category \notin {"SNOW", "RAIN", "SUNNY"} => frame.mode = "cloudy"
         /\ ConditionCode(frame.weatherData) \notin DOMAIN buildCodeCategoryMap(frame.list)
              => frame.mode = "cloudy"
    /\ \A category \in {"FOG", "sunny", ""} : ModeOfCategory(category) = "cloudy"

\* a WINDY classification was decided as cloudy
C24_Witness ==
    IsRun /\ frame.decided /\ frame.category = "WINDY" /\ frame.mode = "cloudy"

\* C25: init runs fetch, decide, load in order: no import of a visualization
\* module is started before the mode decision has completed, a run in which
\* nothing rejects imports exactly one module, and once init has rejected the
\* import of cloudy.js is attempted as fallback
C25_InitOrder ==
    IsRun =>
        /\ frame.imports # <<>> => frame.decided
        /\ frame.pc = "done" => Len(frame.imports) = 1 /\ ~frame.caught
        /\ frame.caught => frame.imports[Len(frame.imports)] = "cloudy.js"

=============================================================================
